---- MODULE Spec2Model ----
(***************************************************************************)
(* Model of the MARG sensor fusion core (sensor_fusion.c): two 6-state     *)
(* Kalman filters on Q16.16 fixed point, the latched sample buffers, the   *)
(* bootstrap flags and the public operations working on them.              *)
(***************************************************************************)
EXTENDS Integers, Sequences, FiniteSets, TLC

(***************************************************************************)
(* Q16.16 scalars (fix16_t, a 32-bit signed integer).  TLC integers are    *)
(* 32 bits wide themselves, so products, quotients and roots are computed  *)
(* in pieces that never leave the int32 range.                             *)
(***************************************************************************)
fix16_maximum == 2147483647
fix16_minimum == -fix16_maximum - 1
fix16_overflow == fix16_minimum
F16_ONE == 65536
F16_ONE_HALF == 32768

\* w, with the operands v evaluated first (C evaluates arguments before a
\* call; a tuple v is evaluated left to right).
Then(v, w) == IF v = v THEN w ELSE w

\* Magnitude of a value other than fix16_minimum.
Mag(v) == IF v < 0 THEN -v ELSE v

\* -v of the C unary minus on int32 (wraps on fix16_minimum on this target).
Neg32(v) == IF v = fix16_minimum THEN fix16_minimum ELSE -v

fix16_abs(v) == IF v < 0 THEN Neg32(v) ELSE v

fix16_add(a, b) ==
    IF a >= 0 /\ b >= 0
    THEN IF a > fix16_maximum - b THEN fix16_overflow ELSE a + b
    ELSE IF a < 0 /\ b < 0
         THEN IF a < fix16_minimum - b THEN fix16_overflow ELSE a + b
         ELSE a + b

fix16_sub(a, b) ==
    IF a >= 0 /\ b < 0
    THEN IF a > fix16_maximum + b THEN fix16_overflow ELSE a - b
    ELSE IF a < 0 /\ b >= 0
         THEN IF a < fix16_minimum + b THEN fix16_overflow ELSE a - b
         ELSE a - b

\* The magnitude m (-1: out of range) with the sign of a*b.
Signed(m, a, b) ==
    IF m < 0 THEN fix16_overflow
    ELSE IF (a < 0) = (b < 0) THEN m ELSE -m

\* x + y for magnitudes, -1 when either is -1 or the sum exceeds int32.
AddMag(x, y) ==
    IF x < 0 \/ y < 0 THEN -1
    ELSE IF x > fix16_maximum - y THEN -1 ELSE x + y

\* round((u*256 + v) / 2^16)
MulLowFrom(u, v) == (u \div 256) + (((u % 256) * 256 + v + 32768) \div 65536)

\* round(a0*b0 / 2^16) for a0, b0 < 2^16
MulLow(a0, b0) == MulLowFrom((a0 \div 256) * b0, (a0 % 256) * b0)

\* round((a1*2^16 + a0) * (b1*2^16 + b0) / 2^16), -1 when it exceeds int32
MulParts(a1, a0, b1, b0) ==
    IF a1 * b1 >= 32768 THEN -1
    ELSE AddMag(AddMag(AddMag(a1 * b1 * 65536, a1 * b0), a0 * b1), MulLow(a0, b0))

\* round(a*b / 2^16) for magnitudes a, b < 2^31; -1 when it exceeds int32.
MulMag(a, b) == MulParts(a \div 65536, a % 65536, b \div 65536, b % 65536)

\* fix16_minimum * o
MulMinimum(o) ==
    IF o = fix16_minimum \/ Mag(o) >= 65536 THEN fix16_overflow
    ELSE IF o > 0 THEN -(o * 32768) ELSE (-o) * 32768

fix16_mul(a, b) ==
    IF a = 0 \/ b = 0 THEN 0
    ELSE IF a = F16_ONE THEN b
    ELSE IF b = F16_ONE THEN a
    ELSE IF a = fix16_minimum THEN MulMinimum(b)
    ELSE IF b = fix16_minimum THEN MulMinimum(a)
    ELSE Signed(MulMag(Mag(a), Mag(b)), a, b)

fix16_sq(a) == fix16_mul(a, a)

\* d * b <= 256 * r for a digit d, without leaving int32
DivFits(d, r, b) ==
    d * (b \div 256) + ((d * (b % 256) + 255) \div 256) <= r

\* 256 * r - d * b
DivRest(d, r, b) ==
    256 * (r - d * (b \div 256) - ((d * (b % 256) + 255) \div 256))
      + (256 * ((d * (b % 256) + 255) \div 256) - d * (b % 256))

\* <<d, the remainder digit d leaves>>
DivTake(d, r, b) == <<d, DivRest(d, r, b)>>

\* The next base-256 quotient digit of r/b (r < b) and the remainder
\* it leaves: <<digit, remainder>>.
DivDigit(r, b) ==
    IF b < 8388608 THEN <<(r * 256) \div b, (r * 256) % b>>
    ELSE DivTake(CHOOSE d \in 0..255 :
                     DivFits(d, r, b) /\ (d = 255 \/ ~DivFits(d + 1, r, b)),
                 r, b)

DivFracFrom(d1, b) == <<d1[1], DivDigit(d1[2], b)>>

DivFracJoin(d) == <<d[1] * 256 + d[2][1], d[2][2]>>

\* 16 further quotient bits of r/b (r < b): <<bits, remainder>>.
DivFrac(r, b) == DivFracJoin(DivFracFrom(DivDigit(r, b), b))

\* val, rounded up when twice the remainder reaches b; -1 past int32
DivRound(val, rest, b) ==
    IF rest >= b - rest
    THEN IF val = fix16_maximum THEN -1 ELSE val + 1
    ELSE val

DivJoin(q0, fr, b) == DivRound(q0 * 65536 + fr[1], fr[2], b)

\* round(a * 2^16 / b) for magnitudes a < 2^31, 0 < b < 2^31; -1 on overflow.
DivMag(a, b) ==
    IF a \div b >= 32768 THEN -1 ELSE DivJoin(a \div b, DivFrac(a % b, b), b)

\* 2 * h with the sign of -b; h = -1 or 2 * h past int32: overflow
DivMinimumBy(h, b) ==
    IF h < 0 \/ h > 1073741823 THEN fix16_overflow
    ELSE IF b > 0 THEN -(2 * h) ELSE 2 * h

\* q with the sign of -a
DivByMinimum(q, a) == IF a > 0 THEN -q ELSE q

fix16_div(a, b) ==
    IF b = 0 THEN fix16_minimum
    ELSE IF a = 0 THEN 0
    ELSE IF b = F16_ONE THEN a
    ELSE IF b = fix16_minimum
         THEN IF a = fix16_minimum THEN F16_ONE
              ELSE DivByMinimum((Mag(a) + 16384) \div 32768, a)
    ELSE IF a = fix16_minimum
         THEN IF Mag(b) <= 65536 THEN fix16_overflow
              ELSE DivMinimumBy(DivMag(1073741824, Mag(b)), b)
    ELSE Signed(DivMag(Mag(a), Mag(b)), a, b)

\* floor(sqrt(x)) for 0 <= x < 2^31, from its high byte h
IntSqrtLow(x, h) ==
    256 * h + (CHOOSE l \in 0..255 :
                 /\ 256 * h + l <= 46340
                 /\ (256 * h + l) * (256 * h + l) <= x
                 /\ \/ l = 255
                    \/ 256 * h + l = 46340
                    \/ (256 * h + l + 1) * (256 * h + l + 1) > x)

IntSqrt(x) ==
    IntSqrtLow(x, CHOOSE h \in 0..181 :
                    /\ (256 * h) * (256 * h) <= x
                    /\ (h = 181 \/ (256 * (h + 1)) * (256 * (h + 1)) > x))

\* (256*s + f)^2 <= x * 2^16 for a digit f, given rem = x - s^2
SqrtFits(f, s, rem) == 2 * s * f + ((f * f + 255) \div 256) <= 256 * rem

\* floor(sqrt(x * 2^16)), rounded up when the remainder exceeds it,
\* from s = floor(sqrt(x)) and its next base-256 digit f
SqrtRound(x, s, f) ==
    IF 256 * (256 * (x - s * s) - 2 * s * f) - f * f > 256 * s + f
    THEN 256 * s + f + 1 ELSE 256 * s + f

SqrtFrom(x, s) ==
    SqrtRound(x, s, CHOOSE f \in 0..255 :
                      /\ SqrtFits(f, s, x - s * s)
                      /\ (f = 255 \/ ~SqrtFits(f + 1, s, x - s * s)))

\* round(sqrt(x * 2^16)) for 0 <= x < 2^31.
SqrtMag(x) == SqrtFrom(x, IntSqrt(x))

\* The square root of the magnitude, with the sign of v.
fix16_sqrt(v) ==
    IF v = fix16_minimum THEN -11863283
    ELSE IF v < 0 THEN -SqrtMag(-v) ELSE SqrtMag(v)

(***************************************************************************)
(* Dense matrices (mf16): a tuple of rows; a vector is a one-column        *)
(* matrix.  Indices in the operators below are the zero-based indices of   *)
(* the source.  The matrices of this program have 1, 3 or 6 rows and       *)
(* columns; the loops over them are written out.                           *)
(***************************************************************************)
Row(entry(_), n) ==
    IF n = 1 THEN <<entry(1)>>
    ELSE IF n = 3 THEN <<entry(1), entry(2), entry(3)>>
    ELSE <<entry(1), entry(2), entry(3), entry(4), entry(5), entry(6)>>

\* Row i of the matrix of entry(i, j).
TabulateRow(entry(_, _), i, columns) == Row(LAMBDA j : entry(i, j), columns)

\* The rows x columns matrix of entry(i, j).
Tabulate(entry(_, _), rows, columns) ==
    Row(LAMBDA i : TabulateRow(entry, i, columns), rows)

mf16_fill(rows, columns, value) ==
    Tabulate(LAMBDA i, j : value, rows, columns)

mf16_fill_diagonal(m, value) ==
    Tabulate(LAMBDA i, j : IF i = j THEN value ELSE 0, Len(m), Len(m[1]))

matrix_set(m, row, column, value) ==
    [m EXCEPT ![row + 1][column + 1] = value]

\* term(1) + ... + term(n), added up in index order
Sum2(term(_)) == fix16_add(term(1), term(2))
Sum3(term(_)) == fix16_add(Sum2(term), term(3))
Sum4(term(_)) == fix16_add(Sum3(term), term(4))
Sum5(term(_)) == fix16_add(Sum4(term), term(5))
Sum6(term(_)) == fix16_add(Sum5(term), term(6))

Sum(term(_), n) ==
    CASE n = 0 -> 0
      [] n = 1 -> term(1)
      [] n = 2 -> Sum2(term)
      [] n = 3 -> Sum3(term)
      [] n = 4 -> Sum4(term)
      [] n = 5 -> Sum5(term)
      [] n = 6 -> Sum6(term)

\* sum over k in 1..n of a[i][k] * b[k][j]
fa16_dot(a, i, b, j, n) == Sum(LAMBDA k : fix16_mul(a[i][k], b[k][j]), n)

mf16_mul(a, b) ==
    Then(<<a, b>>,
         Tabulate(LAMBDA i, j : fa16_dot(a, i, b, j, Len(b)), Len(a), Len(b[1])))

mf16_transpose(a) ==
    Then(a, Tabulate(LAMBDA j, i : a[i][j], Len(a[1]), Len(a)))

mf16_add(a, b) ==
    Then(<<a, b>>,
         Tabulate(LAMBDA i, j : fix16_add(a[i][j], b[i][j]), Len(a), Len(a[1])))

mf16_sub(a, b) ==
    Then(<<a, b>>,
         Tabulate(LAMBDA i, j : fix16_sub(a[i][j], b[i][j]), Len(a), Len(a[1])))

\* step(... step(step(init, 1), 2) ..., n): a loop of n = 3 or 6 rounds
Iterate(step(_, _), init, n) ==
    IF n = 3 THEN step(step(step(init, 1), 2), 3)
    ELSE step(step(step(step(step(step(init, 1), 2), 3), 4), 5), 6)

\* Entry (i, j) of the Cholesky factor of s; l holds the rows above row i
\* and row the entries of row i left of column j.
mf16_cholesky_entry(s, l, i, row, j) ==
    IF j > i THEN 0
    ELSE IF i = j
         THEN fix16_sqrt(fix16_sub(s[i][i],
                  Sum(LAMBDA k : fix16_mul(row[k], row[k]), i - 1)))
         ELSE fix16_div(fix16_sub(s[i][j],
                  Sum(LAMBDA k : fix16_mul(row[k], l[j][k]), j - 1)), l[j][j])

\* Row i of the Cholesky factor of s; l holds the rows above.
mf16_cholesky_row(s, l, i) ==
    Iterate(LAMBDA row, j : Append(row, mf16_cholesky_entry(s, l, i, row, j)),
            <<>>, Len(s))

\* The Cholesky factor of s (lower triangular), row by row.
mf16_cholesky(s) ==
    Then(s, Iterate(LAMBDA l, i : Append(l, mf16_cholesky_row(s, l, i)), <<>>, Len(s)))

\* Entry (i, j) of the inverse of the lower triangular l by forward
\* substitution; m holds the rows above row i.
mf16_invert_lt_entry(l, m, i, j) ==
    IF j > i THEN 0
    ELSE IF i = j THEN fix16_div(F16_ONE, l[i][i])
    ELSE fix16_div(
           Neg32(Sum(LAMBDA k : IF k < j THEN 0 ELSE fix16_mul(l[i][k], m[k][j]), i - 1)),
           l[i][i])

mf16_invert_lt_row(l, m, i) ==
    Row(LAMBDA j : mf16_invert_lt_entry(l, m, i, j), Len(l))

\* The inverse of the lower triangular l.
mf16_invert_lt(l) ==
    Then(l, Iterate(LAMBDA m, i : Append(m, mf16_invert_lt_row(l, m, i)), <<>>, Len(l)))

\* a' * b
mf16_mul_at(a, b) == mf16_mul(mf16_transpose(a), b)

\* The inverse of s from the inverse li of its Cholesky factor.
mf16_invert_from_factor(li) == mf16_mul_at(li, li)

\* Inverse of the symmetric s through its Cholesky factor.
mf16_invert(s) == mf16_invert_from_factor(mf16_invert_lt(mf16_cholesky(s)))

(***************************************************************************)
(* Kalman primitives (kalman16_uc_t, kalman16_observation_t).              *)
(***************************************************************************)
kalman_filter_initialize_uc(states) ==
    [x |-> mf16_fill(states, 1, 0),
     A |-> mf16_fill(states, states, 0),
     P |-> mf16_fill(states, states, 0),
     Q |-> mf16_fill(states, states, 0)]

kalman_observation_initialize(states, observations) ==
    [H |-> mf16_fill(observations, states, 0),
     R |-> mf16_fill(observations, observations, 0),
     z |-> mf16_fill(observations, 1, 0)]

\* P <- A*P*A' + Q
kalman_predict_P_uc(kf) ==
    [kf EXCEPT !.P = mf16_add(mf16_mul(mf16_mul(kf.A, kf.P), mf16_transpose(kf.A)), kf.Q)]

\* K = P*H' * S^-1 with S = H*P*H' + R, from PHt = P*H'
kalman_gain_from(kfm, PHt) ==
    mf16_mul(PHt, mf16_invert(mf16_add(mf16_mul(kfm.H, PHt), kfm.R)))

kalman_gain(kf, kfm) ==
    kalman_gain_from(kfm, mf16_mul(kf.P, mf16_transpose(kfm.H)))

\* (I-K*H)*P*(I-K*H)' + K*R*K' from IKH = I-K*H
kalman_joseph(P, R, K, IKH) ==
    mf16_add(mf16_mul(mf16_mul(IKH, P), mf16_transpose(IKH)),
             mf16_mul(mf16_mul(K, R), mf16_transpose(K)))

\* x <- x + K*(z - H*x), P <- (I-K*H)*P*(I-K*H)' + K*R*K'
kalman_correct_with_gain(kf, kfm, K) ==
    [kf EXCEPT
       !.x = mf16_add(kf.x, mf16_mul(K, mf16_sub(kfm.z, mf16_mul(kfm.H, kf.x)))),
       !.P = kalman_joseph(kf.P, kfm.R, K,
                 mf16_sub(mf16_fill_diagonal(kf.P, F16_ONE), mf16_mul(K, kfm.H)))]

\* y = z - H*x, S = H*P*H' + R, K = P*H'*S^-1, then the Joseph-form update
kalman_correct_uc(kf, kfm) ==
    Then(<<kf, kfm>>, kalman_correct_with_gain(kf, kfm, kalman_gain(kf, kfm)))

\* fixvector3d: norm of a v3d <<x, y, z>>
v3d_norm(v) ==
    fix16_sqrt(fix16_add(fix16_sq(v[1]), fix16_add(fix16_sq(v[2]), fix16_sq(v[3]))))

(***************************************************************************)
(* sensor_fusion.c: tuning constants (F16 literals as raw Q16.16 values)   *)
(***************************************************************************)
initial_r_axis == 3277
initial_r_projection == 1311
initial_r_gyro == 1311
q_axis == 0
q_gyro == 65536
alpha1 == 327680
alpha2 == 52429
attitude_threshold == 9175
KF_ATTITUDE_STATES == 6
KF_ORIENTATION_STATES == 6
KFM_ACCEL == 6
KFM_MAGNETO == 6
KFM_GYRO == 3

\* data[i][0] of a state vector
data(x, i) == x[i + 1][1]

\* The filter with x.data[0..2][0] set to c1, c2, c3.
set_axis(kf, c1, c2, c3) ==
    [kf EXCEPT !.x[1][1] = c1, !.x[2][1] = c2, !.x[3][1] = c3]

\* The matrix with its six diagonal entries set: the first three to axis,
\* the last three to gyro.
set_diagonal(m, axis, gyro) ==
    matrix_set(matrix_set(matrix_set(matrix_set(matrix_set(matrix_set(m,
        0, 0, axis), 1, 1, axis), 2, 2, axis), 3, 3, gyro), 4, 4, gyro), 5, 5, gyro)

norm3(a, b, c) ==
    fix16_sqrt(fix16_add(fix16_sq(a), fix16_add(fix16_sq(b), fix16_sq(c))))

(***************************************************************************)
(* System initialization                                                   *)
(***************************************************************************)
update_state_matrix_from_state(kf, deltaT) ==
    [kf EXCEPT !.A =
        matrix_set(matrix_set(matrix_set(matrix_set(matrix_set(matrix_set(kf.A,
            0, 4, fix16_mul(data(kf.x, 2), deltaT)),
            0, 5, Neg32(fix16_mul(data(kf.x, 1), deltaT))),
            1, 3, Neg32(fix16_mul(data(kf.x, 2), deltaT))),
            1, 5, fix16_mul(data(kf.x, 0), deltaT)),
            2, 3, fix16_mul(data(kf.x, 1), deltaT)),
            2, 4, Neg32(fix16_mul(data(kf.x, 0), deltaT)))]

\* "Set state transition model"
set_state_transition_model(kf) ==
    update_state_matrix_from_state(
        [kf EXCEPT !.A = mf16_fill_diagonal(kf.A, F16_ONE)], F16_ONE)

\* "Set state variances": F16(5) on the axes, F16(1) on the gyro
set_state_variances(kf) == [kf EXCEPT !.P = set_diagonal(kf.P, 327680, 65536)]

\* "Set system process noise"
set_system_process_noise(kf) == [kf EXCEPT !.Q = set_diagonal(kf.Q, q_axis, q_gyro)]

\* A plausible slip: the filter's state vector is not cleared on
\* (re)initialisation.
initialize_system_filter_keeps_x(kf, states) ==
    set_system_process_noise(
        set_state_variances(
            set_state_transition_model(
                [kalman_filter_initialize_uc(states) EXCEPT !.x = kf.x])))

initialize_system_filter(kf, states) ==
    set_system_process_noise(
        set_state_variances(
            set_state_transition_model(
                kalman_filter_initialize_uc(states))))

initialize_system(s) ==
    [s EXCEPT
       !.kf_orientation =
           set_axis(initialize_system_filter(s.kf_orientation, KF_ORIENTATION_STATES),
                    0, 1, 0),
       !.kf_attitude =
           set_axis(initialize_system_filter(s.kf_attitude, KF_ATTITUDE_STATES),
                    0, 0, 1)]

update_measurement_noise(kfm, axisXYZ, gyroXYZ) ==
    [kfm EXCEPT !.R = set_diagonal(kfm.R, axisXYZ, gyroXYZ)]

\* acceleration_detected with the boundary value counted as undisturbed
acceleration_detected_above(s) ==
    LET alpha == fix16_abs(fix16_sub(norm3(s.m_accelerometer[1], s.m_accelerometer[2],
                                           s.m_accelerometer[3]), F16_ONE))
    IN  IF alpha <= attitude_threshold THEN 0 ELSE 1

\* 1 if an external acceleration was detected
acceleration_detected(s) ==
    LET alpha == fix16_abs(fix16_sub(norm3(s.m_accelerometer[1], s.m_accelerometer[2],
                                           s.m_accelerometer[3]), F16_ONE))
    IN  IF alpha < attitude_threshold THEN 0 ELSE 1

\* The dynamic tuning left out: R stays as it is.
tune_measurement_noise_skipped(kfm) == kfm

tune_measurement_noise(kfm) ==
    [kfm EXCEPT !.R = set_diagonal(kfm.R, fix16_mul(initial_r_axis, alpha1),
                                          fix16_mul(initial_r_gyro, alpha2))]

\* "Set observation model" of initialize_observation
set_observation_model(kfm) == [kfm EXCEPT !.H = set_diagonal(kfm.H, F16_ONE, F16_ONE)]

initialize_observation(kfm, states, observations) ==
    update_measurement_noise(
        set_observation_model(kalman_observation_initialize(states, observations)),
        initial_r_axis, initial_r_gyro)

initialize_observation_accel(s) ==
    [s EXCEPT !.kfm_accel = initialize_observation(s.kfm_accel, KF_ATTITUDE_STATES, KFM_ACCEL)]

initialize_observation_magneto(s) ==
    [s EXCEPT !.kfm_magneto =
        initialize_observation(s.kfm_magneto, KF_ORIENTATION_STATES, KFM_MAGNETO)]

\* The gyro observation: H picks the states 3..5, R is initial_r_gyro.
set_observation_gyro(kfm) ==
    [kfm EXCEPT
       !.H = matrix_set(matrix_set(matrix_set(kfm.H, 0, 3, F16_ONE), 1, 4, F16_ONE),
                        2, 5, F16_ONE),
       !.R = matrix_set(matrix_set(matrix_set(kfm.R, 0, 0, initial_r_gyro),
                                   1, 1, initial_r_gyro), 2, 2, initial_r_gyro)]

initialize_observation_gyro(s) ==
    [s EXCEPT !.kfm_gyro =
        set_observation_gyro(kalman_observation_initialize(KF_ORIENTATION_STATES, KFM_GYRO))]

\* fusion_initialize clearing the bootstrap flags as well
fusion_initialize_unbootstrapping(s) ==
    [initialize_observation_magneto(
        initialize_observation_accel(
            initialize_observation_gyro(
                initialize_system(s))))
       EXCEPT !.m_attitude_bootstrapped = FALSE,
              !.m_orientation_bootstrapped = FALSE]

fusion_initialize(s) ==
    initialize_observation_magneto(
        initialize_observation_accel(
            initialize_observation_gyro(
                initialize_system(s))))

(***************************************************************************)
(* State calculation helpers                                               *)
(***************************************************************************)
\* The axis row of the filter divided by norm.
divide_axis(kf, norm) ==
    set_axis(kf, fix16_div(data(kf.x, 0), norm), fix16_div(data(kf.x, 1), norm),
                 fix16_div(data(kf.x, 2), norm))

fusion_sanitize_state(kf) ==
    divide_axis(kf, norm3(data(kf.x, 0), data(kf.x, 1), data(kf.x, 2)))

(***************************************************************************)
(* State prediction                                                        *)
(***************************************************************************)
\* The integration adding deltaT to the derivative instead of scaling by it
fusion_fastpredict_X_adding(kf, deltaT) ==
    LET c1   == data(kf.x, 0)
        c2   == data(kf.x, 1)
        c3   == data(kf.x, 2)
        gx   == data(kf.x, 3)
        gy   == data(kf.x, 4)
        gz   == data(kf.x, 5)
        d_c1 == fix16_sub(fix16_mul(c3, gy), fix16_mul(c2, gz))
        d_c2 == fix16_sub(fix16_mul(c1, gz), fix16_mul(c3, gx))
        d_c3 == fix16_sub(fix16_mul(c2, gx), fix16_mul(c1, gy))
    IN  [kf EXCEPT !.x = << <<fix16_add(c1, fix16_add(d_c1, deltaT))>>,
                            <<fix16_add(c2, fix16_mul(d_c2, deltaT))>>,
                            <<fix16_add(c3, fix16_mul(d_c3, deltaT))>>,
                            <<gx>>, <<gy>>, <<gz>> >>]

\* The integration using each new component in the derivatives that follow
fusion_fastpredict_X_sequential(kf, deltaT) ==
    LET c1   == data(kf.x, 0)
        c2   == data(kf.x, 1)
        c3   == data(kf.x, 2)
        gx   == data(kf.x, 3)
        gy   == data(kf.x, 4)
        gz   == data(kf.x, 5)
        n_c1 == fix16_add(c1, fix16_mul(fix16_sub(fix16_mul(c3, gy), fix16_mul(c2, gz)), deltaT))
        n_c2 == fix16_add(c2, fix16_mul(fix16_sub(fix16_mul(n_c1, gz), fix16_mul(c3, gx)), deltaT))
        n_c3 == fix16_add(c3, fix16_mul(fix16_sub(fix16_mul(n_c2, gx), fix16_mul(n_c1, gy)), deltaT))
    IN  [kf EXCEPT !.x = << <<n_c1>>, <<n_c2>>, <<n_c3>>, <<gx>>, <<gy>>, <<gz>> >>]

fusion_fastpredict_X(kf, deltaT) ==
    LET c1   == data(kf.x, 0)
        c2   == data(kf.x, 1)
        c3   == data(kf.x, 2)
        gx   == data(kf.x, 3)
        gy   == data(kf.x, 4)
        gz   == data(kf.x, 5)
        d_c1 == fix16_sub(fix16_mul(c3, gy), fix16_mul(c2, gz))
        d_c2 == fix16_sub(fix16_mul(c1, gz), fix16_mul(c3, gx))
        d_c3 == fix16_sub(fix16_mul(c2, gx), fix16_mul(c1, gy))
    IN  [kf EXCEPT !.x = << <<fix16_add(c1, fix16_mul(d_c1, deltaT))>>,
                            <<fix16_add(c2, fix16_mul(d_c2, deltaT))>>,
                            <<fix16_add(c3, fix16_mul(d_c3, deltaT))>>,
                            <<gx>>, <<gy>>, <<gz>> >>]

\* The steps of fusion_predict with the state matrix rewritten after the
\* integration
predict_filter_late_matrix(kf, deltaT) ==
    fusion_sanitize_state(
        kalman_predict_P_uc(
            update_state_matrix_from_state(
                fusion_fastpredict_X(kf, deltaT), deltaT)))

\* The four steps of fusion_predict on one filter.
predict_filter(kf, deltaT) ==
    fusion_sanitize_state(
        kalman_predict_P_uc(
            fusion_fastpredict_X(
                update_state_matrix_from_state(kf, deltaT), deltaT)))

fusion_predict(s, deltaT) ==
    [s EXCEPT !.kf_attitude = predict_filter(s.kf_attitude, deltaT),
              !.kf_orientation = predict_filter(s.kf_orientation, deltaT)]

(***************************************************************************)
(* Setters for sensor data                                                 *)
(***************************************************************************)
fusion_set_accelerometer(s, ax, ay, az) ==
    [s EXCEPT !.m_accelerometer = <<ax, ay, az>>, !.m_have_accelerometer = TRUE]

fusion_set_gyroscope(s, gx, gy, gz) ==
    [s EXCEPT !.m_gyroscope = <<gx, gy, gz>>, !.m_have_gyroscope = TRUE]

\* fusion_set_magnetometer dropping the latched accelerometer sample
fusion_set_magnetometer_exclusive(s, mx, my, mz) ==
    [s EXCEPT !.m_magnetometer = <<mx, my, mz>>, !.m_have_magnetometer = TRUE,
              !.m_have_accelerometer = FALSE]

fusion_set_magnetometer(s, mx, my, mz) ==
    [s EXCEPT !.m_magnetometer = <<mx, my, mz>>, !.m_have_magnetometer = TRUE]

(***************************************************************************)
(* State update                                                            *)
(***************************************************************************)
\* kalman_correct_uc(&kf, &kfm) on the named instances; the call is noted in
\* s.corrections (the corrections run by the current fusion_update).
kalman_correct(s, kf, kfm) ==
    [s EXCEPT ![kf] = kalman_correct_uc(s[kf], s[kfm]),
              !.corrections = Append(s.corrections, <<kf, kfm>>)]

\* fusion_sanitize_state(&kf) on the named filter
sanitize(s, kf) == [s EXCEPT ![kf] = fusion_sanitize_state(s[kf])]

\* z with its entries from row on set to the gyroscope sample
set_gyro_rows(z, row, g) ==
    matrix_set(matrix_set(matrix_set(z, row, 0, g[1]), row + 1, 0, g[2]), row + 2, 0, g[3])

\* z with its first three entries set to v
set_axis_rows(z, v) ==
    matrix_set(matrix_set(matrix_set(z, 0, 0, v[1]), 1, 0, v[2]), 2, 0, v[3])

\* The measurement of the gyro-only updates taken as zero unless a gyroscope
\* sample was latched
prepare_measurement_gyro_guarded(s) ==
    [s EXCEPT !.kfm_gyro.z =
        set_gyro_rows(s.kfm_gyro.z, 0,
                      IF s.m_have_gyroscope THEN s.m_gyroscope ELSE <<0, 0, 0>>)]

\* "Prepare measurement" of the gyro-only updates
prepare_measurement_gyro(s) ==
    [s EXCEPT !.kfm_gyro.z = set_gyro_rows(s.kfm_gyro.z, 0, s.m_gyroscope)]

\* The gyro-only update also refreshing the transition matrix for deltaT
fusion_update_attitude_gyro_refreshing(s, deltaT) ==
    [sanitize(kalman_correct(prepare_measurement_gyro(s), "kf_attitude", "kfm_gyro"),
              "kf_attitude")
        EXCEPT !.kf_attitude = update_state_matrix_from_state(@, deltaT)]

fusion_update_attitude_gyro(s, deltaT) ==
    sanitize(kalman_correct(prepare_measurement_gyro(s), "kf_attitude", "kfm_gyro"),
             "kf_attitude")

\* <<x / norm, y / norm, z / norm>>
v3d_div(v, norm) ==
    <<fix16_div(v[1], norm), fix16_div(v[2], norm), fix16_div(v[3], norm)>>

\* "Prepare measurement" and "Prepare noise" of fusion_update_attitude
prepare_measurement_accel(s) ==
    [s EXCEPT !.kfm_accel =
        tune_measurement_noise(
            [s.kfm_accel EXCEPT !.z =
                set_gyro_rows(
                    set_axis_rows(s.kfm_accel.z,
                                  v3d_div(s.m_accelerometer, v3d_norm(s.m_accelerometer))),
                    3, s.m_gyroscope)])]

fusion_update_attitude(s, deltaT) ==
    IF acceleration_detected(s) # 0
    THEN fusion_update_attitude_gyro(s, deltaT)
    ELSE sanitize(kalman_correct(prepare_measurement_accel(s), "kf_attitude", "kfm_accel"),
                  "kf_attitude")

\* The cross product with its operands exchanged
magnetometer_cross_exchanged(m, x) ==
    <<fix16_sub(fix16_mul(m[3], data(x, 1)), fix16_mul(m[2], data(x, 2))),
      fix16_sub(fix16_mul(m[1], data(x, 2)), fix16_mul(m[3], data(x, 0))),
      fix16_sub(fix16_mul(m[2], data(x, 0)), fix16_mul(m[1], data(x, 1)))>>

\* The cross product of the magnetometer sample and the attitude axis row.
magnetometer_cross(m, x) ==
    <<fix16_sub(fix16_mul(m[2], data(x, 2)), fix16_mul(m[3], data(x, 1))),
      fix16_sub(fix16_mul(m[3], data(x, 0)), fix16_mul(m[1], data(x, 2))),
      fix16_sub(fix16_mul(m[1], data(x, 1)), fix16_mul(m[2], data(x, 0)))>>

\* v / norm3(v)
normalize3(v) == v3d_div(v, norm3(v[1], v[2], v[3]))

\* <<mx, my, mz>>
magnetometer_project(s) ==
    normalize3(magnetometer_cross(s.m_magnetometer, s.kf_attitude.x))

\* "Prepare noise" and "Prepare measurement" of fusion_update_orientation,
\* p being the projected magnetometer sample
prepare_measurement_magneto(s, p) ==
    [s EXCEPT
       !.kfm_magneto.R =
           matrix_set(matrix_set(matrix_set(tune_measurement_noise(s.kfm_magneto).R,
               0, 0, fix16_mul(initial_r_projection, alpha1)),
               1, 1, fix16_mul(initial_r_projection, alpha1)),
               2, 2, fix16_mul(initial_r_projection, alpha1)),
       !.kfm_magneto.z =
           set_gyro_rows(set_axis_rows(s.kfm_magneto.z, p), 3, s.m_gyroscope)]

fusion_update_orientation_gyro(s, deltaT) ==
    sanitize(kalman_correct(prepare_measurement_gyro(s), "kf_orientation", "kfm_gyro"),
             "kf_orientation")

fusion_update_orientation(s, deltaT) ==
    sanitize(kalman_correct(prepare_measurement_magneto(s, magnetometer_project(s)),
                            "kf_orientation", "kfm_magneto"),
             "kf_orientation")

\* The bootstrap of the attitude filter leaving its flag as it is
bootstrap_attitude_unflagged(s) ==
    [s EXCEPT
       !.kf_attitude = divide_axis(
           set_axis(s.kf_attitude, s.m_accelerometer[1], s.m_accelerometer[2],
                    s.m_accelerometer[3]),
           v3d_norm(s.m_accelerometer))]

\* "bootstrap filter" of the roll and pitch updates
bootstrap_attitude(s) ==
    [s EXCEPT
       !.kf_attitude = divide_axis(
           set_axis(s.kf_attitude, s.m_accelerometer[1], s.m_accelerometer[2],
                    s.m_accelerometer[3]),
           v3d_norm(s.m_accelerometer)),
       !.m_attitude_bootstrapped = TRUE]

\* "perform roll and pitch updates"
fusion_update_roll_pitch(s, deltaT) ==
    IF s.m_have_accelerometer = TRUE
    THEN IF s.m_attitude_bootstrapped = FALSE
         THEN fusion_update_attitude(bootstrap_attitude(s), deltaT)
         ELSE fusion_update_attitude(s, deltaT)
    ELSE fusion_update_attitude_gyro(s, deltaT)

\* The orientation filter's axis row set to the projection p.
seed_orientation(s, p) ==
    [s EXCEPT !.kf_orientation = set_axis(s.kf_orientation, p[1], p[2], p[3]),
              !.m_orientation_bootstrapped = TRUE]

\* "bootstrap filter" of the yaw updates
bootstrap_orientation(s) == seed_orientation(s, magnetometer_project(s))

\* The yaw updates bootstrapping without regard to the attitude filter
fusion_update_yaw_unguarded(s, deltaT) ==
    IF s.m_have_magnetometer = TRUE
    THEN IF s.m_orientation_bootstrapped = FALSE
         THEN fusion_update_orientation(bootstrap_orientation(s), deltaT)
         ELSE fusion_update_orientation(s, deltaT)
    ELSE fusion_update_orientation_gyro(s, deltaT)

\* The yaw updates falling back to the gyroscope when the projection of the
\* magnetometer sample vanishes
fusion_update_yaw_rejecting(s, deltaT) ==
    IF (s.m_have_magnetometer = TRUE)
       /\ (v3d_norm(magnetometer_cross(s.m_magnetometer, s.kf_attitude.x)) # 0)
    THEN IF (s.m_orientation_bootstrapped = FALSE) /\ (s.m_attitude_bootstrapped = TRUE)
         THEN fusion_update_orientation(bootstrap_orientation(s), deltaT)
         ELSE fusion_update_orientation(s, deltaT)
    ELSE fusion_update_orientation_gyro(s, deltaT)

\* "perform yaw updates"
fusion_update_yaw(s, deltaT) ==
    IF s.m_have_magnetometer = TRUE
    THEN IF (s.m_orientation_bootstrapped = FALSE) /\ (s.m_attitude_bootstrapped = TRUE)
         THEN fusion_update_orientation(bootstrap_orientation(s), deltaT)
         ELSE fusion_update_orientation(s, deltaT)
    ELSE fusion_update_orientation_gyro(s, deltaT)

\* A reset that also drops the gyroscope sample
reset_information_all(s) ==
    [s EXCEPT !.m_have_accelerometer = FALSE, !.m_have_magnetometer = FALSE,
              !.m_have_gyroscope = FALSE]

\* "reset information"
reset_information(s) ==
    [s EXCEPT !.m_have_accelerometer = FALSE, !.m_have_magnetometer = FALSE]

\* fusion_update with the orientation branch run before the attitude branch
fusion_update_yaw_first(s, deltaT) ==
    reset_information(
        fusion_update_roll_pitch(
            fusion_update_yaw([s EXCEPT !.corrections = <<>>], deltaT),
            deltaT))

fusion_update(s, deltaT) ==
    reset_information(
        fusion_update_yaw(
            fusion_update_roll_pitch([s EXCEPT !.corrections = <<>>], deltaT),
            deltaT))

(***************************************************************************)
(* Angle and quaternion extraction.  The results go to the caller's        *)
(* out-parameters, held in s.out.                                          *)
(***************************************************************************)
fix16_atan2(inY, inX) ==
    LET abs_inY == fix16_abs(inY)
        r       == IF inX >= 0
                   THEN fix16_div(fix16_sub(inX, abs_inY), fix16_add(inX, abs_inY))
                   ELSE fix16_div(fix16_add(inX, abs_inY), fix16_sub(abs_inY, inX))
        r_3     == fix16_mul(fix16_mul(r, r), r)
        base    == IF inX >= 0 THEN 51471 ELSE 154415
        angle   == fix16_add(fix16_sub(fix16_mul(12864, r_3), fix16_mul(64336, r)), base)
    IN  IF inY < 0 THEN Neg32(angle) ELSE angle

fix16_asin(x) ==
    IF x > F16_ONE \/ x < -F16_ONE THEN 0
    ELSE fix16_atan2(fix16_div(x, fix16_sqrt(fix16_sub(F16_ONE, fix16_mul(x, x)))), F16_ONE)

\* <<roll, pitch>>
calculate_roll_pitch(s) ==
    LET c31 == data(s.kf_attitude.x, 0)
        c32 == data(s.kf_attitude.x, 1)
        c33 == data(s.kf_attitude.x, 2)
    IN  <<Neg32(fix16_atan2(c32, Neg32(c33))), Neg32(fix16_asin(c31))>>

calculate_yaw(s) ==
    LET c21 == data(s.kf_orientation.x, 0)
        c22 == data(s.kf_orientation.x, 1)
        c23 == data(s.kf_orientation.x, 2)
        c32 == data(s.kf_attitude.x, 1)
        c33 == data(s.kf_attitude.x, 2)
        c11 == fix16_sub(fix16_mul(c22, c33), fix16_mul(c23, c32))
    IN  fix16_atan2(c21, Neg32(c11))

fusion_fetch_angles(s) ==
    LET rp == calculate_roll_pitch(s)
    IN  [s EXCEPT !.out.roll = rp[1], !.out.pitch = rp[2], !.out.yaw = calculate_yaw(s)]

\* fixquat: q / |q| for q = <<a, b, c, d>>
qf16_normalize(q) ==
    LET n == fix16_sqrt(fix16_add(fix16_add(fix16_sq(q[1]), fix16_sq(q[2])),
                                  fix16_add(fix16_sq(q[3]), fix16_sq(q[4]))))
    IN  <<fix16_div(q[1], n), fix16_div(q[2], n), fix16_div(q[3], n), fix16_div(q[4], n)>>

\* The top row with the operands of the cross product exchanged
quaternion_top_row_exchanged(s) ==
    LET m10 == data(s.kf_orientation.x, 0)
        m11 == data(s.kf_orientation.x, 1)
        m12 == data(s.kf_orientation.x, 2)
        m20 == Neg32(data(s.kf_attitude.x, 0))
        m21 == Neg32(data(s.kf_attitude.x, 1))
        m22 == Neg32(data(s.kf_attitude.x, 2))
    IN  <<fix16_sub(fix16_mul(m21, m12), fix16_mul(m22, m11)),
          fix16_sub(fix16_mul(m22, m10), fix16_mul(m20, m12)),
          fix16_sub(fix16_mul(m20, m11), fix16_mul(m21, m10))>>

\* The un-normalised top row <<m00, m01, m02>> of the DCM.
quaternion_top_row(s) ==
    LET m10 == data(s.kf_orientation.x, 0)
        m11 == data(s.kf_orientation.x, 1)
        m12 == data(s.kf_orientation.x, 2)
        m20 == Neg32(data(s.kf_attitude.x, 0))
        m21 == Neg32(data(s.kf_attitude.x, 1))
        m22 == Neg32(data(s.kf_attitude.x, 2))
    IN  <<fix16_sub(fix16_mul(m11, m22), fix16_mul(m12, m21)),
          fix16_sub(fix16_mul(m12, m20), fix16_mul(m10, m22)),
          fix16_sub(fix16_mul(m10, m21), fix16_mul(m11, m20))>>

\* <<qw, qx, qy, qz>>, normalised
fetch_quaternion_opt2(s) ==
    LET m10 == data(s.kf_orientation.x, 0)
        m11 == data(s.kf_orientation.x, 1)
        m12 == data(s.kf_orientation.x, 2)
        m20 == Neg32(data(s.kf_attitude.x, 0))
        m21 == Neg32(data(s.kf_attitude.x, 1))
        m22 == Neg32(data(s.kf_attitude.x, 2))
        top == quaternion_top_row(s)
        norm == norm3(top[1], top[2], top[3])
        m00 == fix16_div(top[1], norm)
        m01 == fix16_div(top[2], norm)
        m02 == fix16_div(top[3], norm)
        trace == fix16_add(m00, fix16_add(m11, m22))
        q == IF trace > 0
             THEN LET sc == fix16_div(F16_ONE_HALF, fix16_sqrt(fix16_add(F16_ONE, trace)))
                  IN  <<fix16_div(16384, sc),
                        fix16_mul(fix16_sub(m21, m12), sc),
                        fix16_mul(fix16_sub(m02, m20), sc),
                        fix16_mul(fix16_sub(m10, m01), sc)>>
             ELSE IF m00 > m11 /\ m00 > m22
             THEN LET sc == fix16_mul(131072, fix16_sqrt(fix16_add(F16_ONE,
                                 fix16_sub(m00, fix16_add(m11, m22)))))
                  IN  <<fix16_div(fix16_sub(m21, m12), sc),
                        fix16_mul(16384, sc),
                        fix16_div(fix16_add(m01, m10), sc),
                        fix16_div(fix16_add(m02, m20), sc)>>
             ELSE IF m11 > m22
             THEN LET sc == fix16_mul(131072, fix16_sqrt(fix16_add(F16_ONE,
                                 fix16_sub(m11, fix16_add(m00, m22)))))
                  IN  <<fix16_div(fix16_sub(m02, m20), sc),
                        fix16_div(fix16_add(m01, m10), sc),
                        fix16_mul(16384, sc),
                        fix16_div(fix16_add(m12, m21), sc)>>
             ELSE LET sc == fix16_mul(131072, fix16_sqrt(fix16_add(F16_ONE,
                                 fix16_sub(m22, fix16_add(m00, m11)))))
                  IN  <<fix16_div(fix16_sub(m10, m01), sc),
                        fix16_div(fix16_add(m02, m20), sc),
                        fix16_div(fix16_add(m12, m21), sc),
                        fix16_mul(16384, sc)>>
    IN  qf16_normalize(q)

\* A plausible slip: the extractor renormalises the axis rows in place.
fusion_fetch_quaternion_sanitizing(s) ==
    [s EXCEPT !.out.quat = fetch_quaternion_opt2(s),
              !.kf_attitude = fusion_sanitize_state(s.kf_attitude),
              !.kf_orientation = fusion_sanitize_state(s.kf_orientation)]

fusion_fetch_quaternion(s) ==
    [s EXCEPT !.out.quat = fetch_quaternion_opt2(s)]


(***************************************************************************)
(* The MPU6050 driver: the configuration structure and the device          *)
(* registers, both as functions to bytes                                   *)
(***************************************************************************)
\* a & b and a | b on non-negative integers
RECURSIVE BitAnd(_, _)
BitAnd(a, b) ==
    IF a = 0 \/ b = 0 THEN 0
    ELSE (a % 2) * (b % 2) + 2 * BitAnd(a \div 2, b \div 2)

RECURSIVE BitOr(_, _)
BitOr(a, b) ==
    IF a = 0 THEN b
    ELSE IF b = 0 THEN a
    ELSE (IF (a % 2) + (b % 2) > 0 THEN 1 ELSE 0) + 2 * BitOr(a \div 2, b \div 2)

\* The register addresses at which the bursts start.
MPU6050_REG_SMPLRT_DIV == 25
MPU6050_REG_FIFO_EN == 35
MPU6050_REG_INT_PIN_CFG == 55
MPU6050_REG_I2C_SLV0_DO == 99
MPU6050_REG_PWR_MGMT_1 == 107
MPU6050_REG_FIFO_COUNTH == 114

MPU6050_SMPLRT_DIV_SMPLRT_DIV_MASK == 255
MPU6050_SMPLRT_DIV_SMPLRT_DIV_SHIFT == 0
MPU6050_PWR_MGMT_1_SLEEP_MASK == 64
MPU6050_PWR_MGMT_1_SLEEP_SHIFT == 7

\* The bursts of MPU6050_FetchConfiguration: the register each read starts
\* at and the fields of mpu6050_confreg_t in the order they are assigned.
FetchBursts ==
    << <<MPU6050_REG_SMPLRT_DIV,
         <<"SMPLRT_DIV", "CONFIG", "GYRO_CONFIG", "ACCEL_CONFIG">> >>,
       <<MPU6050_REG_FIFO_EN,
         <<"FIFO_EN", "I2C_MST_CTRL",
           "I2C_SLV0_ADDR", "I2C_SLV0_CTRL", "I2C_SLV0_REG",
           "I2C_SLV1_ADDR", "I2C_SLV1_REG", "I2C_SLV1_CTRL",
           "I2C_SLV2_ADDR", "I2C_SLV2_REG", "I2C_SLV2_CTRL",
           "I2C_SLV3_ADDR", "I2C_SLV3_REG", "I2C_SLV3_CTRL",
           "I2C_SLV4_ADDR", "I2C_SLV4_REG", "I2C_SLV4_DO", "I2C_SLV4_CTRL",
           "I2C_SLV4_DI", "I2C_MST_STATUS", "INT_PIN_CFG", "INT_ENABLE">> >>,
       <<MPU6050_REG_I2C_SLV0_DO,
         <<"I2C_SLV0_DO", "I2C_SLV1_DO", "I2C_SLV2_DO", "I2C_SLV3_DO",
           "I2C_MST_DELAY_CTRL", "SIGNAL_PATH_RESET", "MOT_DETECT_CTRL",
           "USER_CTRL", "PWR_MGMT_1", "PWR_MGMT_2">> >>,
       <<MPU6050_REG_FIFO_COUNTH,
         <<"FIFO_COUNTH", "FIFO_COUNTL", "FIFO_R_W", "WHO_AM_I">> >> >>

\* The bursts of MPU6050_StoreConfiguration: the register each write starts
\* at and the fields in the order they are sent.
StoreBursts ==
    << <<MPU6050_REG_SMPLRT_DIV,
         <<"SMPLRT_DIV", "CONFIG", "GYRO_CONFIG", "ACCEL_CONFIG">> >>,
       <<MPU6050_REG_PWR_MGMT_1, <<"PWR_MGMT_1">> >>,
       <<MPU6050_REG_FIFO_EN,
         <<"FIFO_EN", "I2C_MST_CTRL",
           "I2C_SLV0_ADDR", "I2C_SLV0_REG", "I2C_SLV0_CTRL",
           "I2C_SLV1_ADDR", "I2C_SLV1_REG", "I2C_SLV1_CTRL",
           "I2C_SLV2_ADDR", "I2C_SLV2_REG", "I2C_SLV2_CTRL",
           "I2C_SLV3_ADDR", "I2C_SLV3_REG", "I2C_SLV3_CTRL",
           "I2C_SLV4_ADDR", "I2C_SLV4_REG", "I2C_SLV4_DO", "I2C_SLV4_CTRL">> >>,
       <<MPU6050_REG_INT_PIN_CFG, <<"INT_PIN_CFG", "INT_ENABLE">> >>,
       <<MPU6050_REG_I2C_SLV0_DO,
         <<"I2C_SLV0_DO", "I2C_SLV1_DO", "I2C_SLV2_DO", "I2C_SLV3_DO",
           "I2C_MST_DELAY_CTRL", "SIGNAL_PATH_RESET", "MOT_DETECT_CTRL",
           "USER_CTRL", "PWR_MGMT_1", "PWR_MGMT_2">> >>,
       <<MPU6050_REG_FIFO_COUNTH, <<"FIFO_COUNTH", "FIFO_COUNTL", "FIFO_R_W">> >> >>

\* The fields of mpu6050_confreg_t, and the addresses of the device
\* registers from SMPLRT_DIV to WHO_AM_I.
Fields ==
    UNION { {FetchBursts[i][2][k] : k \in DOMAIN FetchBursts[i][2]} :
                i \in DOMAIN FetchBursts }
Addresses == MPU6050_REG_SMPLRT_DIV .. (MPU6050_REG_FIFO_COUNTH + 3)

\* I2C_InitiateRegisterReadAt(start) and one I2C_Receive... for each of the
\* fields: the device sends its registers from start on, one address up for
\* every byte.
receive_burst(configuration, registers, start, fields) ==
    [f \in Fields |->
        IF \E k \in DOMAIN fields : fields[k] = f
        THEN registers[start + (CHOOSE k \in DOMAIN fields : fields[k] = f) - 1]
        ELSE configuration[f]]

\* The register address start and the fields sent with I2C_SendBlocking: the
\* device writes its registers from start on, one address up for every byte.
send_burst(registers, configuration, start, fields) ==
    [a \in Addresses |->
        IF a \in start .. (start + Len(fields) - 1)
        THEN configuration[fields[a - start + 1]]
        ELSE registers[a]]

\* The configuration structure after the call.
MPU6050_FetchConfiguration(configuration, registers) ==
    receive_burst(
        receive_burst(
            receive_burst(
                receive_burst(configuration,
                              registers, FetchBursts[1][1], FetchBursts[1][2]),
                registers, FetchBursts[2][1], FetchBursts[2][2]),
            registers, FetchBursts[3][1], FetchBursts[3][2]),
        registers, FetchBursts[4][1], FetchBursts[4][2])

\* The device registers after the call.
MPU6050_StoreConfiguration(configuration, registers) ==
    send_burst(
        send_burst(
            send_burst(
                send_burst(
                    send_burst(
                        send_burst(registers,
                                   configuration, StoreBursts[1][1], StoreBursts[1][2]),
                        configuration, StoreBursts[2][1], StoreBursts[2][2]),
                    configuration, StoreBursts[3][1], StoreBursts[3][2]),
                configuration, StoreBursts[4][1], StoreBursts[4][2]),
            configuration, StoreBursts[5][1], StoreBursts[5][2]),
        configuration, StoreBursts[6][1], StoreBursts[6][2])

\* configuration->reg &= (uint8_t)~mask;
\* configuration->reg |= (value << shift) & mask
MPU6050_CONFIG_SET(configuration, reg, mask, shift, value) ==
    [configuration EXCEPT
        ![reg] = BitOr(BitAnd(@, (255 - mask) % 256),
                       BitAnd(value * 2^shift, mask)) % 256]

\* The setter without the adjustment of a zero divider
MPU6050_SetGyroscopeSampleRateDivider_unadjusted(configuration, divider) ==
    MPU6050_CONFIG_SET(configuration, "SMPLRT_DIV",
                       MPU6050_SMPLRT_DIV_SMPLRT_DIV_MASK,
                       MPU6050_SMPLRT_DIV_SMPLRT_DIV_SHIFT,
                       (divider - 1) % 256)

MPU6050_SetGyroscopeSampleRateDivider(configuration, divider) ==
    MPU6050_CONFIG_SET(configuration, "SMPLRT_DIV",
                       MPU6050_SMPLRT_DIV_SMPLRT_DIV_MASK,
                       MPU6050_SMPLRT_DIV_SMPLRT_DIV_SHIFT,
                       ((IF divider = 0 THEN 1 ELSE divider) - 1) % 256)

MPU6050_SetSleepMode(configuration, mode) ==
    MPU6050_CONFIG_SET(configuration, "PWR_MGMT_1",
                       MPU6050_PWR_MGMT_1_SLEEP_MASK,
                       MPU6050_PWR_MGMT_1_SLEEP_SHIFT, mode)
(***************************************************************************)
(* The module state and the calls made on it                               *)
(***************************************************************************)
VARIABLES
    kf_attitude, kf_orientation,            \* the two filters: x, A, P, Q
    kfm_accel, kfm_magneto, kfm_gyro,       \* the three observations: H, R, z
    m_accelerometer, m_gyroscope, m_magnetometer,
    m_have_accelerometer, m_have_gyroscope, m_have_magnetometer,
    m_attitude_bootstrapped, m_orientation_bootstrapped,
    out,            \* the caller's out-parameters of the fetch functions
    corrections,    \* the Kalman corrections run by the last fusion_update
    last_call,      \* the call that led to this state: the operation, its
                    \* arguments, and whether the call before it was of the
                    \* same operation
    ncalls,         \* number of calls made after the first fusion_initialize
    configuration,  \* the caller's mpu6050_confreg_t structure
    registers       \* the registers of the MPU6050 device

module_vars == <<kf_attitude, kf_orientation, kfm_accel, kfm_magneto, kfm_gyro,
                 m_accelerometer, m_gyroscope, m_magnetometer,
                 m_have_accelerometer, m_have_gyroscope, m_have_magnetometer,
                 m_attitude_bootstrapped, m_orientation_bootstrapped>>

driver_vars == <<configuration, registers>>

vars == <<module_vars, out, corrections, last_call, ncalls, driver_vars>>

\* Bound on the length of the call sequences explored.
MaxCalls == 3

State ==
    [kf_attitude |-> kf_attitude, kf_orientation |-> kf_orientation,
     kfm_accel |-> kfm_accel, kfm_magneto |-> kfm_magneto, kfm_gyro |-> kfm_gyro,
     m_accelerometer |-> m_accelerometer, m_gyroscope |-> m_gyroscope,
     m_magnetometer |-> m_magnetometer,
     m_have_accelerometer |-> m_have_accelerometer,
     m_have_gyroscope |-> m_have_gyroscope,
     m_have_magnetometer |-> m_have_magnetometer,
     m_attitude_bootstrapped |-> m_attitude_bootstrapped,
     m_orientation_bootstrapped |-> m_orientation_bootstrapped,
     out |-> out, corrections |-> corrections]

\* The static initialisers of the translation unit (zeroed storage).
StaticState ==
    [kf_attitude |-> kalman_filter_initialize_uc(KF_ATTITUDE_STATES),
     kf_orientation |-> kalman_filter_initialize_uc(KF_ORIENTATION_STATES),
     kfm_accel |-> kalman_observation_initialize(KF_ATTITUDE_STATES, KFM_ACCEL),
     kfm_magneto |-> kalman_observation_initialize(KF_ORIENTATION_STATES, KFM_MAGNETO),
     kfm_gyro |-> kalman_observation_initialize(KF_ORIENTATION_STATES, KFM_GYRO),
     m_accelerometer |-> <<0, 0, 0>>, m_gyroscope |-> <<0, 0, 0>>,
     m_magnetometer |-> <<0, 0, 0>>,
     m_have_accelerometer |-> FALSE, m_have_gyroscope |-> FALSE,
     m_have_magnetometer |-> FALSE,
     m_attitude_bootstrapped |-> FALSE, m_orientation_bootstrapped |-> FALSE,
     out |-> [roll |-> 0, pitch |-> 0, yaw |-> 0, quat |-> <<0, 0, 0, 0>>],
     corrections |-> <<>>]

Install(s) ==
    /\ kf_attitude' = s.kf_attitude
    /\ kf_orientation' = s.kf_orientation
    /\ kfm_accel' = s.kfm_accel
    /\ kfm_magneto' = s.kfm_magneto
    /\ kfm_gyro' = s.kfm_gyro
    /\ m_accelerometer' = s.m_accelerometer
    /\ m_gyroscope' = s.m_gyroscope
    /\ m_magnetometer' = s.m_magnetometer
    /\ m_have_accelerometer' = s.m_have_accelerometer
    /\ m_have_gyroscope' = s.m_have_gyroscope
    /\ m_have_magnetometer' = s.m_have_magnetometer
    /\ m_attitude_bootstrapped' = s.m_attitude_bootstrapped
    /\ m_orientation_bootstrapped' = s.m_orientation_bootstrapped
    /\ out' = s.out
    /\ corrections' = s.corrections
    /\ UNCHANGED driver_vars

\* Sample and time-step values the calls are made with (raw Q16.16).
\* 74711 and 74710 are the norms on either side of 1 + attitude_threshold.
AccelSamples == { <<0, 0, 65536>>, <<131072, 0, 0>>, <<74711, 0, 0>>, <<74710, 0, 0>> }
GyroSamples == { <<0, 6554, 0>> }
MagSamples == { <<65536, 0, 0>>, <<0, 0, 65536>> }
DeltaTs == { 655, 65536 }

\* The state s is the initial one.
InitFrom(s) ==
    /\ kf_attitude = s.kf_attitude
    /\ kf_orientation = s.kf_orientation
    /\ kfm_accel = s.kfm_accel
    /\ kfm_magneto = s.kfm_magneto
    /\ kfm_gyro = s.kfm_gyro
    /\ m_accelerometer = s.m_accelerometer
    /\ m_gyroscope = s.m_gyroscope
    /\ m_magnetometer = s.m_magnetometer
    /\ m_have_accelerometer = s.m_have_accelerometer
    /\ m_have_gyroscope = s.m_have_gyroscope
    /\ m_have_magnetometer = s.m_have_magnetometer
    /\ m_attitude_bootstrapped = s.m_attitude_bootstrapped
    /\ m_orientation_bootstrapped = s.m_orientation_bootstrapped
    /\ out = s.out
    /\ corrections = s.corrections

\* The program starts with fusion_initialize on the zeroed statics.
Init ==
    /\ InitFrom(fusion_initialize(StaticState))
    /\ last_call = [op |-> "fusion_initialize", arg |-> <<>>, again |-> FALSE]
    /\ ncalls = 0
    /\ configuration = [f \in Fields |-> 0]
    /\ registers = [a \in Addresses |-> 0]

\* The call of op with arguments arg is the last one made.
Called(op, arg) ==
    /\ last_call' = [op |-> op, arg |-> arg, again |-> (last_call.op = op)]
    /\ ncalls' = ncalls + 1

Initialize ==
    /\ ncalls < MaxCalls
    /\ Install(fusion_initialize(State))
    /\ Called("fusion_initialize", <<>>)

SetAccelerometer ==
    \E v \in AccelSamples :
        /\ ncalls < MaxCalls
        /\ Install(fusion_set_accelerometer(State, v[1], v[2], v[3]))
        /\ Called("fusion_set_accelerometer", v)

SetGyroscope ==
    \E v \in GyroSamples :
        /\ ncalls < MaxCalls
        /\ Install(fusion_set_gyroscope(State, v[1], v[2], v[3]))
        /\ Called("fusion_set_gyroscope", v)

SetMagnetometer ==
    \E v \in MagSamples :
        /\ ncalls < MaxCalls
        /\ Install(fusion_set_magnetometer(State, v[1], v[2], v[3]))
        /\ Called("fusion_set_magnetometer", v)

Predict ==
    \E dt \in DeltaTs :
        /\ ncalls < MaxCalls
        /\ Install(fusion_predict(State, dt))
        /\ Called("fusion_predict", <<dt>>)

Update ==
    \E dt \in DeltaTs :
        /\ ncalls < MaxCalls
        /\ Install(fusion_update(State, dt))
        /\ Called("fusion_update", <<dt>>)

FetchAngles ==
    /\ ncalls < MaxCalls
    /\ Install(fusion_fetch_angles(State))
    /\ Called("fusion_fetch_angles", <<>>)

FetchQuaternion ==
    /\ ncalls < MaxCalls
    /\ Install(fusion_fetch_quaternion(State))
    /\ Called("fusion_fetch_quaternion", <<>>)

Next ==
    \/ Initialize
    \/ SetAccelerometer
    \/ SetGyroscope
    \/ SetMagnetometer
    \/ Predict
    \/ Update
    \/ FetchAngles
    \/ FetchQuaternion

Spec == Init /\ [][Next]_vars

(***************************************************************************)
(* The calls of a sampling loop.  In each round the accelerometer and      *)
(* magnetometer samples that arrived are latched, the gyroscope sample is  *)
(* latched, fusion_predict and fusion_update are called, and the angles or *)
(* the quaternion may be fetched.                                          *)
(***************************************************************************)
\* Bound on the length of the call sequences of the sampling loop.
MaxLoopCalls == 11

\* Sample and time-step values of the sampling loop (raw Q16.16):
\* gravity and twice gravity, no rotation and 0.1 rad/s, magnetic north,
\* dt = 0.01.
LoopAccelSamples == { <<0, 0, 65536>>, <<131072, 0, 0>> }
LoopGyroSamples == { <<0, 0, 0>>, <<0, 6554, 0>> }
LoopMagSamples == { <<65536, 0, 0>> }
LoopDeltaTs == { 655 }

\* The place of each call in a round.
Rank(op) ==
    CASE op = "fusion_initialize" -> 0
      [] op = "fusion_set_accelerometer" -> 1
      [] op = "fusion_set_gyroscope" -> 2
      [] op = "fusion_set_magnetometer" -> 3
      [] op = "fusion_predict" -> 4
      [] op = "fusion_update" -> 5
      [] op = "fusion_fetch_angles" -> 6
      [] op = "fusion_fetch_quaternion" -> 7

\* op may be called next: it comes later in the round, with the gyroscope
\* setter, fusion_predict and fusion_update never left out, or it starts a
\* new round once the last one has updated.
Follows(op) ==
    /\ ncalls < MaxLoopCalls
    /\ \/ /\ Rank(op) > Rank(last_call.op)
          /\ Rank(last_call.op) < 2 => Rank(op) <= 2
          /\ Rank(last_call.op) \in {2, 3} => Rank(op) <= 4
          /\ Rank(last_call.op) = 4 => Rank(op) = 5
       \/ /\ Rank(last_call.op) >= 5
          /\ Rank(op) <= 2

LoopSetAccelerometer ==
    \E v \in LoopAccelSamples :
        /\ Follows("fusion_set_accelerometer")
        /\ Install(fusion_set_accelerometer(State, v[1], v[2], v[3]))
        /\ Called("fusion_set_accelerometer", v)

LoopSetGyroscope ==
    \E v \in LoopGyroSamples :
        /\ Follows("fusion_set_gyroscope")
        /\ Install(fusion_set_gyroscope(State, v[1], v[2], v[3]))
        /\ Called("fusion_set_gyroscope", v)

LoopSetMagnetometer ==
    \E v \in LoopMagSamples :
        /\ Follows("fusion_set_magnetometer")
        /\ Install(fusion_set_magnetometer(State, v[1], v[2], v[3]))
        /\ Called("fusion_set_magnetometer", v)

LoopPredict ==
    \E dt \in LoopDeltaTs :
        /\ Follows("fusion_predict")
        /\ Install(fusion_predict(State, dt))
        /\ Called("fusion_predict", <<dt>>)

LoopUpdate ==
    \E dt \in LoopDeltaTs :
        /\ Follows("fusion_update")
        /\ Install(fusion_update(State, dt))
        /\ Called("fusion_update", <<dt>>)

LoopFetchAngles ==
    /\ Follows("fusion_fetch_angles")
    /\ Install(fusion_fetch_angles(State))
    /\ Called("fusion_fetch_angles", <<>>)

LoopFetchQuaternion ==
    /\ Follows("fusion_fetch_quaternion")
    /\ Install(fusion_fetch_quaternion(State))
    /\ Called("fusion_fetch_quaternion", <<>>)

LoopNext ==
    \/ LoopSetAccelerometer
    \/ LoopSetGyroscope
    \/ LoopSetMagnetometer
    \/ LoopPredict
    \/ LoopUpdate
    \/ LoopFetchAngles
    \/ LoopFetchQuaternion

SpecLoop == Init /\ [][LoopNext]_vars

(***************************************************************************)
(* Restarts.  Rounds of latching an accelerometer sample, a magnetometer   *)
(* sample or both and calling fusion_update, with fusion_initialize called *)
(* again between rounds.                                                   *)
(***************************************************************************)
\* Bound on the length of the call sequences with restarts.
MaxRestartCalls == 7

\* Samples of the rounds with restarts (raw Q16.16): gravity along z or x,
\* magnetic north or no field.  The time step is that of the sampling loop.
RestartAccelSamples == { <<0, 0, 65536>>, <<65536, 0, 0>> }
RestartMagSamples == { <<65536, 0, 0>>, <<0, 0, 0>> }

\* op may be called next: the setters in their order, fusion_update once a
\* sample is latched, fusion_initialize or a new round after an update.
Allowed(op) ==
    /\ ncalls < MaxRestartCalls
    /\ CASE last_call.op = "fusion_initialize" ->
                op \in {"fusion_set_accelerometer", "fusion_set_magnetometer"}
         [] last_call.op = "fusion_set_accelerometer" ->
                op \in {"fusion_set_magnetometer", "fusion_update"}
         [] last_call.op = "fusion_set_magnetometer" ->
                op = "fusion_update"
         [] OTHER ->
                op \in {"fusion_initialize", "fusion_set_accelerometer",
                        "fusion_set_magnetometer"}

RestartInitialize ==
    /\ Allowed("fusion_initialize")
    /\ Install(fusion_initialize(State))
    /\ Called("fusion_initialize", <<>>)

RestartSetAccelerometer ==
    \E v \in RestartAccelSamples :
        /\ Allowed("fusion_set_accelerometer")
        /\ Install(fusion_set_accelerometer(State, v[1], v[2], v[3]))
        /\ Called("fusion_set_accelerometer", v)

RestartSetMagnetometer ==
    \E v \in RestartMagSamples :
        /\ Allowed("fusion_set_magnetometer")
        /\ Install(fusion_set_magnetometer(State, v[1], v[2], v[3]))
        /\ Called("fusion_set_magnetometer", v)

RestartUpdate ==
    \E dt \in LoopDeltaTs :
        /\ Allowed("fusion_update")
        /\ Install(fusion_update(State, dt))
        /\ Called("fusion_update", <<dt>>)

RestartNext ==
    \/ RestartInitialize
    \/ RestartSetAccelerometer
    \/ RestartSetMagnetometer
    \/ RestartUpdate

SpecRestart == Init /\ [][RestartNext]_vars

(***************************************************************************)
(* The calls made on the MPU6050 driver.  The fusion module is initialised *)
(* and not called.                                                         *)
(***************************************************************************)
\* Bound on the length of the call sequences of the driver.
MaxDriverCalls == 4

\* The register contents the device starts with: all zero, and every
\* register holding its own address.
RegisterImages == { [a \in Addresses |-> 0], [a \in Addresses |-> a] }

\* The dividers and sleep modes the setters are called with.
Dividers == {0, 1, 2, 255}
SleepModes == {0, 1}

InitDriver ==
    /\ InitFrom(fusion_initialize(StaticState))
    /\ last_call = [op |-> "fusion_initialize", arg |-> <<>>, again |-> FALSE]
    /\ ncalls = 0
    /\ configuration = [f \in Fields |-> 0]
    /\ registers \in RegisterImages

FetchConfiguration ==
    /\ ncalls < MaxDriverCalls
    /\ configuration' = MPU6050_FetchConfiguration(configuration, registers)
    /\ Called("MPU6050_FetchConfiguration", <<>>)
    /\ UNCHANGED <<module_vars, out, corrections, registers>>

StoreConfiguration ==
    /\ ncalls < MaxDriverCalls
    /\ registers' = MPU6050_StoreConfiguration(configuration, registers)
    /\ Called("MPU6050_StoreConfiguration", <<>>)
    /\ UNCHANGED <<module_vars, out, corrections, configuration>>

SetGyroscopeSampleRateDivider ==
    \E divider \in Dividers :
        /\ ncalls < MaxDriverCalls
        /\ configuration' = MPU6050_SetGyroscopeSampleRateDivider(configuration, divider)
        /\ Called("MPU6050_SetGyroscopeSampleRateDivider", <<divider>>)
        /\ UNCHANGED <<module_vars, out, corrections, registers>>

SetSleepMode ==
    \E mode \in SleepModes :
        /\ ncalls < MaxDriverCalls
        /\ configuration' = MPU6050_SetSleepMode(configuration, mode)
        /\ Called("MPU6050_SetSleepMode", <<mode>>)
        /\ UNCHANGED <<module_vars, out, corrections, registers>>

DriverNext ==
    \/ FetchConfiguration
    \/ StoreConfiguration
    \/ SetGyroscopeSampleRateDivider
    \/ SetSleepMode

SpecDriver == InitDriver /\ [][DriverNext]_vars

(***************************************************************************)
(* Properties                                                              *)
(***************************************************************************)
\* The step is a call of op.
Calls(op) == (ncalls' = ncalls + 1) /\ (last_call'.op = op)

\* The axis row of the state vector x.
axis(x) == <<data(x, 0), data(x, 1), data(x, 2)>>

\* The velocity entries of the state vector x.
rates(x) == <<data(x, 3), data(x, 4), data(x, 5)>>

\* | norm(v) - 1 |
norm_error(v) == fix16_abs(fix16_sub(norm3(v[1], v[2], v[3]), F16_ONE))

\* C1: in every reachable state the orientation bootstrap flag is true only
\* if the attitude bootstrap flag is true.
C1_OrientationAfterAttitude ==
    (m_orientation_bootstrapped = TRUE) => (m_attitude_bootstrapped = TRUE)

\* An update has bootstrapped both filters.
C1_BothBootstrapped ==
    /\ last_call.op = "fusion_update"
    /\ m_orientation_bootstrapped = TRUE
    /\ m_attitude_bootstrapped = TRUE

\* C2: a fusion_update with a magnetometer sample latched that leaves the
\* attitude filter not bootstrapped corrects the orientation filter against
\* kfm_gyro only, leaves kfm_magneto alone (no projection is stored, no
\* correction is run against it) and leaves the orientation flag false.
C2_MagnetometerWaitsForAttitude ==
    [][(Calls("fusion_update") /\ m_have_magnetometer = TRUE
                               /\ m_attitude_bootstrapped' = FALSE)
         => /\ corrections' = << <<"kf_attitude", "kfm_gyro">>,
                                 <<"kf_orientation", "kfm_gyro">> >>
            /\ kfm_magneto' = kfm_magneto
            /\ m_orientation_bootstrapped' = FALSE]_vars

\* The first update, made with only a magnetometer sample, has corrected the
\* orientation filter against kfm_magneto.
C2_MagnetoCorrectionWithoutAttitude ==
    /\ ncalls = 2
    /\ last_call.op = "fusion_update"
    /\ m_attitude_bootstrapped = FALSE
    /\ m_orientation_bootstrapped = FALSE
    /\ corrections = << <<"kf_attitude", "kfm_gyro">>,
                        <<"kf_orientation", "kfm_magneto">> >>

\* C3: a fusion_update with an accelerometer sample a latched corrects the
\* attitude filter against kfm_gyro, with the latched gyroscope sample as
\* measurement and kfm_accel untouched, exactly when
\* |norm(a) - 1| >= attitude_threshold; otherwise it corrects it against
\* kfm_accel with z = (a / norm(a), gyroscope).
C3_DisturbanceSelectsObservation ==
    [][(Calls("fusion_update") /\ m_have_accelerometer = TRUE)
         => /\ Len(corrections') = 2
            /\ corrections'[2][1] = "kf_orientation"
            /\ IF norm_error(m_accelerometer) >= attitude_threshold
               THEN /\ corrections'[1] = <<"kf_attitude", "kfm_gyro">>
                    /\ axis(kfm_gyro'.z) = m_gyroscope
                    /\ kfm_accel' = kfm_accel
               ELSE /\ corrections'[1] = <<"kf_attitude", "kfm_accel">>
                    /\ axis(kfm_accel'.z) =
                           v3d_div(m_accelerometer, v3d_norm(m_accelerometer))
                    /\ rates(kfm_accel'.z) = m_gyroscope]_vars

\* The first update consumed a sample exactly on the threshold and corrected
\* the attitude filter against kfm_gyro.
C3_BoundaryIsDisturbed ==
    /\ ncalls = 2
    /\ last_call.op = "fusion_update"
    /\ m_accelerometer # <<0, 0, 0>>
    /\ norm_error(m_accelerometer) = attitude_threshold
    /\ corrections[1] = <<"kf_attitude", "kfm_gyro">>

\* C4: a fusion_update that consumes a disturbed accelerometer sample
\* (|norm(a) - 1| >= attitude_threshold) changes the attitude filter only as
\* the gyro-only correction followed by renormalisation does, in any
\* reachable state; the sample is not written into the axis row.
C4_DisturbedSampleKeptOut ==
    [][(Calls("fusion_update") /\ m_have_accelerometer = TRUE
            /\ norm_error(m_accelerometer) >= attitude_threshold)
         => kf_attitude' =
                fusion_update_attitude_gyro(State, last_call'.arg[1]).kf_attitude]_vars

\* The first update consumed the sample (2, 0, 0) and the attitude axis row
\* is the direction of that sample.
C4_AxisPulledToSample ==
    /\ ncalls = 2
    /\ last_call.op = "fusion_update"
    /\ m_accelerometer = <<2 * F16_ONE, 0, 0>>
    /\ axis(kf_attitude.x) = <<F16_ONE, 0, 0>>

\* C5: every fusion_update leaves have_accelerometer and have_magnetometer
\* false and have_gyroscope as it was.
C5_UpdateClearsAxisSamplesOnly ==
    [][Calls("fusion_update")
         => /\ m_have_accelerometer' = FALSE
            /\ m_have_magnetometer' = FALSE
            /\ m_have_gyroscope' = m_have_gyroscope]_vars

\* An update was made with accelerometer and gyroscope samples latched.
C5_UpdateWithGyroscopeLatched ==
    /\ ncalls = 3
    /\ last_call.op = "fusion_update"
    /\ m_accelerometer # <<0, 0, 0>>
    /\ m_have_accelerometer = FALSE
    /\ m_have_gyroscope = TRUE

\* Everything of the module state but the sample buffers and have flags.
filters == <<kf_attitude, kf_orientation, kfm_accel, kfm_magneto, kfm_gyro,
             m_attitude_bootstrapped, m_orientation_bootstrapped>>

\* C6: each setter writes its own buffer, sets its own have flag and changes
\* nothing else of the module state; a have flag goes from true to false in
\* calls of fusion_update only.
C6_SettersLatchOnly ==
    [][/\ Calls("fusion_set_accelerometer")
            => /\ m_accelerometer' = last_call'.arg
               /\ m_have_accelerometer' = TRUE
               /\ UNCHANGED <<filters, m_gyroscope, m_magnetometer,
                              m_have_gyroscope, m_have_magnetometer>>
       /\ Calls("fusion_set_gyroscope")
            => /\ m_gyroscope' = last_call'.arg
               /\ m_have_gyroscope' = TRUE
               /\ UNCHANGED <<filters, m_accelerometer, m_magnetometer,
                              m_have_accelerometer, m_have_magnetometer>>
       /\ Calls("fusion_set_magnetometer")
            => /\ m_magnetometer' = last_call'.arg
               /\ m_have_magnetometer' = TRUE
               /\ UNCHANGED <<filters, m_accelerometer, m_gyroscope,
                              m_have_accelerometer, m_have_gyroscope>>
       /\ ~Calls("fusion_update")
            => /\ m_have_accelerometer = TRUE => m_have_accelerometer' = TRUE
               /\ m_have_gyroscope = TRUE => m_have_gyroscope' = TRUE
               /\ m_have_magnetometer = TRUE => m_have_magnetometer' = TRUE]_vars

\* A setter was called while the samples of the other two sensors were latched.
C6_SetterAmongLatchedSamples ==
    /\ last_call.op = "fusion_set_magnetometer"
    /\ m_have_accelerometer = TRUE
    /\ m_have_gyroscope = TRUE
    /\ m_have_magnetometer = TRUE

\* C7: fusion_fetch_angles and fusion_fetch_quaternion change nothing of the
\* module state (filters, observations, sample buffers, have flags and
\* bootstrap flags).
C7_FetchesArePureReads ==
    [][(Calls("fusion_fetch_angles") \/ Calls("fusion_fetch_quaternion"))
         => UNCHANGED module_vars]_vars

\* A quaternion was fetched from a bootstrapped attitude filter.
C7_FetchedAfterBootstrap ==
    /\ last_call.op = "fusion_fetch_quaternion"
    /\ m_attitude_bootstrapped = TRUE
    /\ out.quat # <<0, 0, 0, 0>>

\* C8: right after fusion_initialize the attitude axis row is (0, 0, 1.0),
\* the orientation axis row is (0, 1.0, 0), 1.0 being 65536, and entries
\* 3..5 of both states are 0.
C8_InitialAxisRowsAreUnit ==
    (last_call.op = "fusion_initialize")
        => /\ axis(kf_attitude.x) = <<0, 0, F16_ONE>>
           /\ axis(kf_orientation.x) = <<0, F16_ONE, 0>>
           /\ rates(kf_attitude.x) = <<0, 0, 0>>
           /\ rates(kf_orientation.x) = <<0, 0, 0>>

\* fusion_initialize was called on a bootstrapped module and the axis rows
\* hold the integer 1.
C8_InitialAxisRowsAreRawOne ==
    /\ last_call.op = "fusion_initialize"
    /\ m_attitude_bootstrapped = TRUE
    /\ axis(kf_attitude.x) = <<0, 0, 1>>
    /\ axis(kf_orientation.x) = <<0, 1, 0>>

\* 2^-10 in Q16.16
AxisTolerance == F16_ONE \div 1024

\* C9: after each fusion_predict and each fusion_update the axis rows of both
\* filters satisfy |norm(c) - 1| < 2^-10.
C9_AxisRowsStayUnit ==
    (last_call.op \in {"fusion_predict", "fusion_update"})
        => /\ norm_error(axis(kf_attitude.x)) < AxisTolerance
           /\ norm_error(axis(kf_orientation.x)) < AxisTolerance

\* A prediction made right after fusion_initialize has divided the axis rows
\* by a zero norm.
C9_DividedByZeroNorm ==
    /\ ncalls = 1
    /\ last_call.op = "fusion_predict"
    /\ axis(kf_attitude.x) = <<fix16_minimum, fix16_minimum, fix16_minimum>>
    /\ axis(kf_orientation.x) = <<fix16_minimum, fix16_minimum, fix16_minimum>>

\* C10: a fusion_initialize that follows a fusion_initialize changes nothing
\* of the module state.
C10_InitializeIdempotent ==
    [][(last_call.op = "fusion_initialize" /\ Calls("fusion_initialize"))
         => UNCHANGED module_vars]_vars

\* fusion_initialize was called twice in a row with a sample latched.
C10_InitializedTwice ==
    /\ ncalls = 3
    /\ last_call.op = "fusion_initialize"
    /\ last_call.again = TRUE
    /\ m_have_accelerometer = TRUE

\* The diagonal of the 6x6 matrix m.
diagonal(m) == <<m[1][1], m[2][2], m[3][3], m[4][4], m[5][5], m[6][6]>>

\* (axisXYZ x3, gyroXYZ x3)
noise_diagonal(axisXYZ, gyroXYZ) ==
    <<axisXYZ, axisXYZ, axisXYZ, gyroXYZ, gyroXYZ, gyroXYZ>>

\* C11: right after fusion_initialize the R diagonal of kfm_accel is
\* (r_axis * alpha1 x3, r_gyro * alpha2 x3) and the first three R diagonal
\* entries of kfm_magneto are r_projection * alpha1.
C11_InitialNoiseIsTuned ==
    (last_call.op = "fusion_initialize")
        => /\ diagonal(kfm_accel.R) =
                  noise_diagonal(fix16_mul(initial_r_axis, alpha1),
                                 fix16_mul(initial_r_gyro, alpha2))
           /\ axis(diagonal(kfm_magneto.R)) =
                  <<fix16_mul(initial_r_projection, alpha1),
                    fix16_mul(initial_r_projection, alpha1),
                    fix16_mul(initial_r_projection, alpha1)>>

\* fusion_initialize was called after an update that tuned both observations,
\* and both R diagonals are the untuned (r_axis x3, r_gyro x3).
C11_InitialNoiseIsUntuned ==
    /\ last_call.op = "fusion_initialize"
    /\ m_attitude_bootstrapped = TRUE
    /\ diagonal(kfm_accel.R) = noise_diagonal(initial_r_axis, initial_r_gyro)
    /\ diagonal(kfm_magneto.R) = noise_diagonal(initial_r_axis, initial_r_gyro)

\* C12: after a fusion_update that corrected against kfm_accel, the R diagonal
\* of kfm_accel is (r_axis * alpha1 x3, r_gyro * alpha2 x3); after one that
\* corrected against kfm_magneto, the R diagonal of kfm_magneto is
\* (r_projection * alpha1 x3, r_gyro * alpha2 x3), whatever the samples, the
\* dt and the calls made before (R is written before the correction only).
C12_NoiseRefreshedBeforeCorrection ==
    [][Calls("fusion_update")
         => /\ (corrections'[1] = <<"kf_attitude", "kfm_accel">>)
                 => diagonal(kfm_accel'.R) =
                        noise_diagonal(fix16_mul(initial_r_axis, alpha1),
                                       fix16_mul(initial_r_gyro, alpha2))
            /\ (corrections'[2] = <<"kf_orientation", "kfm_magneto">>)
                 => diagonal(kfm_magneto'.R) =
                        noise_diagonal(fix16_mul(initial_r_projection, alpha1),
                                       fix16_mul(initial_r_gyro, alpha2))]_vars

\* The first update after a fusion_initialize corrected against both
\* 6-observation instances.
C12_CorrectedAgainstBoth ==
    /\ ncalls = 3
    /\ last_call.op = "fusion_update"
    /\ corrections = << <<"kf_attitude", "kfm_accel">>,
                        <<"kf_orientation", "kfm_magneto">> >>
    /\ diagonal(kfm_accel.R) # noise_diagonal(initial_r_axis, initial_r_gyro)

\* C13: the state a fusion_update(dt) leads to is the state fusion_update
\* leads to with any other value of dt: dt is not consumed.
C13_UpdateIgnoresDeltaT ==
    [][Calls("fusion_update")
         => \A dt \in DeltaTs \ {last_call'.arg[1]} :
                State' = fusion_update(State, dt)]_vars

\* An update called with dt = 1 has bootstrapped and corrected both filters.
C13_UpdatedWithUnitDeltaT ==
    /\ last_call.op = "fusion_update"
    /\ last_call.arg = <<F16_ONE>>
    /\ m_orientation_bootstrapped = TRUE
    /\ corrections[1] = <<"kf_attitude", "kfm_accel">>

\* The module state with the axis row of the filter kf set to v.
with_axis(kf, v) == [State EXCEPT ![kf] = set_axis(State[kf], v[1], v[2], v[3])]

\* The dt of the call the step makes.
called_dt == last_call'.arg[1]

\* C14: the attitude bootstrap flag becomes true exactly in the first
\* fusion_update made with have_accelerometer true; that update writes
\* a / norm(a) into entries 0..2 of the attitude state and then corrects;
\* an update without accelerometer sample leaves the flag as it is, and a
\* later update with one only corrects.
C14_AttitudeBootstrapOnce ==
    [][/\ (Calls("fusion_update") /\ m_have_accelerometer = TRUE
                                  /\ m_attitude_bootstrapped = FALSE)
            => /\ m_attitude_bootstrapped' = TRUE
               /\ kf_attitude' =
                      fusion_update_attitude(
                          with_axis("kf_attitude",
                                    v3d_div(m_accelerometer, v3d_norm(m_accelerometer))),
                          called_dt).kf_attitude
       /\ (Calls("fusion_update") /\ m_have_accelerometer = TRUE
                                  /\ m_attitude_bootstrapped = TRUE)
            => /\ m_attitude_bootstrapped' = TRUE
               /\ kf_attitude' = fusion_update_attitude(State, called_dt).kf_attitude
       /\ ~(Calls("fusion_update") /\ m_have_accelerometer = TRUE)
            => m_attitude_bootstrapped' = m_attitude_bootstrapped]_vars

\* A later round's update consumed the sample (2, 0, 0) and the attitude axis
\* row is still the (0, 0, 1) that the first update was bootstrapped with.
C14_LaterSampleOnlyCorrects ==
    /\ last_call.op = "fusion_update"
    /\ m_attitude_bootstrapped = TRUE
    /\ m_accelerometer = <<2 * F16_ONE, 0, 0>>
    /\ m_have_accelerometer = FALSE
    /\ axis(kf_attitude.x) = <<0, 0, F16_ONE>>

\* u x v
cross(u, v) ==
    <<fix16_sub(fix16_mul(u[2], v[3]), fix16_mul(u[3], v[2])),
      fix16_sub(fix16_mul(u[3], v[1]), fix16_mul(u[1], v[3])),
      fix16_sub(fix16_mul(u[1], v[2]), fix16_mul(u[2], v[1]))>>

\* v / norm(v)
normalised(v) == v3d_div(v, norm3(v[1], v[2], v[3]))

\* The state in which the yaw updates of the step start with the orientation
\* filter kf: the attitude filter is already updated.
yaw_start(kf) == [State EXCEPT !.kf_attitude = kf_attitude', !.kf_orientation = kf]

upper_right(m) ==
    << <<m[1][4], m[1][5], m[1][6]>>,
       <<m[2][4], m[2][5], m[2][6]>>,
       <<m[3][4], m[3][5], m[3][6]>> >>

\* dt * [c]x
skew(c, dt) ==
    << <<0, fix16_mul(c[3], dt), Neg32(fix16_mul(c[2], dt))>>,
       <<Neg32(fix16_mul(c[3], dt)), 0, fix16_mul(c[1], dt)>>,
       <<fix16_mul(c[2], dt), Neg32(fix16_mul(c[1], dt)), 0>> >>

\* m has 1 on its diagonal and 0 elsewhere outside its upper-right block.
identity_outside_upper_right(m) ==
    \A i, j \in 1..6 :
        /\ (i = j) => (m[i][j] = F16_ONE)
        /\ (i # j /\ ~(i <= 3 /\ j >= 4)) => (m[i][j] = 0)

\* The dt of the most recent predict where the last call tells it (1 right
\* after fusion_initialize); after other calls, the dt values of the calls
\* that can have been made.
recent_dts ==
    IF last_call.op = "fusion_initialize" THEN {F16_ONE}
    ELSE IF last_call.op = "fusion_predict" THEN {last_call.arg[1]}
    ELSE DeltaTs \cup LoopDeltaTs \cup {F16_ONE}

\* The transition matrix of kf has the structure of C16.
transition_follows_axis(kf) ==
    /\ identity_outside_upper_right(kf.A)
    /\ \E dt \in recent_dts : upper_right(kf.A) = skew(axis(kf.x), dt)

\* C16: in every reachable state the transition matrix A of each filter has
\* 1 on its diagonal, 0 in its lower-left block and off the diagonal of its
\* upper-left and lower-right blocks, and its upper-right block is
\* dt * [c]x for the filter's current axis row c and the dt of the most
\* recent predict (1 right after fusion_initialize).
C16_TransitionFollowsAxis ==
    transition_follows_axis(kf_attitude) /\ transition_follows_axis(kf_orientation)

\* fusion_initialize was called again; the axis rows are seeded and the
\* upper-right block of both transition matrices is zero.
C16_InitialTransitionIsIdentity ==
    /\ last_call.op = "fusion_initialize"
    /\ ncalls = 1
    /\ axis(kf_attitude.x) # <<0, 0, 0>>
    /\ axis(kf_orientation.x) # <<0, 0, 0>>
    /\ upper_right(kf_attitude.A) = skew(<<0, 0, 0>>, F16_ONE)
    /\ upper_right(kf_orientation.A) = skew(<<0, 0, 0>>, F16_ONE)

\* |a - b| <= 1 in every component
within_rounding(a, b) == \A i \in 1..3 : fix16_abs(fix16_sub(a[i], b[i])) <= 1

\* The filter has zero angular velocity and an axis row of norm 1.
at_rest(kf) == (rates(kf.x) = <<0, 0, 0>>) /\ (norm_error(axis(kf.x)) <= 1)

\* The filter kf2 has the axis row of kf within rounding and zero angular
\* velocity.
kept_at_rest(kf, kf2) ==
    /\ within_rounding(axis(kf2.x), axis(kf.x))
    /\ rates(kf2.x) = <<0, 0, 0>>

\* C17: a fusion_predict(dt) made when a filter's entries 3..5 are zero and
\* its axis row is a unit vector leaves the axis row as it was within
\* rounding and entries 3..5 zero; so does fusion_predict(1.0), the largest
\* dt, from the same state.
C17_PredictAtRestKeepsAxis ==
    [][Calls("fusion_predict")
         => /\ at_rest(kf_attitude)
                 => /\ kept_at_rest(kf_attitude, kf_attitude')
                    /\ kept_at_rest(kf_attitude,
                                    fusion_predict(State, F16_ONE).kf_attitude)
            /\ at_rest(kf_orientation)
                 => /\ kept_at_rest(kf_orientation, kf_orientation')
                    /\ kept_at_rest(kf_orientation,
                                    fusion_predict(State, F16_ONE).kf_orientation)]_vars

\* A prediction was made in a later round with both filters bootstrapped and
\* at rest.
C17_PredictedAtRest ==
    /\ last_call.op = "fusion_predict"
    /\ ncalls > 5
    /\ m_orientation_bootstrapped = TRUE
    /\ at_rest(kf_attitude)
    /\ at_rest(kf_orientation)
    /\ axis(kf_orientation.x) = <<0, -F16_ONE, 0>>

\* The loop has made its first round in full on the samples of the level,
\* stationary scenario: accelerometer (0, 0, 1), gyroscope (0, 0, 0),
\* magnetometer (1, 0, 0), predict(0.01), update(0.01), then the fetch op.
level_stationary(op) ==
    /\ ncalls = 6
    /\ last_call.op = op
    /\ m_accelerometer = <<0, 0, F16_ONE>>
    /\ m_gyroscope = <<0, 0, 0>>
    /\ m_magnetometer = <<F16_ONE, 0, 0>>

\* 0.01 rad, and 0.01 for a quaternion component
near_zero(v) == fix16_abs(v) <= F16_ONE \div 100

\* C18: in the level, stationary scenario fusion_fetch_angles returns
\* roll, pitch and yaw of about 0.
C18_LevelAnglesAreZero ==
    level_stationary("fusion_fetch_angles")
        => near_zero(out.roll) /\ near_zero(out.pitch) /\ near_zero(out.yaw)

\* In the level, stationary scenario the roll fetched is below -3 rad (the
\* half turn, -pi), with pitch and yaw about 0.
C18_LevelRollIsMinusPi ==
    /\ level_stationary("fusion_fetch_angles")
    /\ out.roll < -3 * F16_ONE
    /\ near_zero(out.pitch)
    /\ near_zero(out.yaw)

\* C19: in the level, stationary scenario fusion_fetch_quaternion returns a
\* unit quaternion of about (w, x, y, z) = (1, 0, 0, 0).
C19_LevelQuaternionIsIdentity ==
    level_stationary("fusion_fetch_quaternion")
        => /\ near_zero(fix16_sub(out.quat[1], F16_ONE))
           /\ near_zero(out.quat[2])
           /\ near_zero(out.quat[3])
           /\ near_zero(out.quat[4])

\* In the level, stationary scenario the quaternion fetched is (0, 1, 0, 0),
\* the half turn about the x axis.
C19_LevelQuaternionIsHalfTurn ==
    /\ level_stationary("fusion_fetch_quaternion")
    /\ out.quat = <<0, F16_ONE, 0, 0>>

\* (-v1, -v2, -v3)
negated(v) == <<Neg32(v[1]), Neg32(v[2]), Neg32(v[3])>>

\* C20 with the operands in the order (-a), b: the un-normalised top row of
\* the DCM that fusion_fetch_quaternion converts is (-a) x b, a the attitude
\* axis row and b the orientation axis row.
C20_TopRowIsMinusACrossB ==
    quaternion_top_row(State) =
        cross(negated(axis(kf_attitude.x)), axis(kf_orientation.x))

\* C20: the un-normalised top row of the DCM that fusion_fetch_quaternion
\* converts is b x (-a), the cross product of its second row b (orientation
\* axis row) and its third row -a (negated attitude axis row), in this order.
C20_TopRowIsBCrossMinusA ==
    quaternion_top_row(State) =
        cross(axis(kf_orientation.x), negated(axis(kf_attitude.x)))

\* A quaternion was fetched in the level, stationary scenario from the rows
\* b = (0, -1, 0) and -a = (0, 0, -1), whose top row is (1, 0, 0).
C20_FetchedWithTopRowX ==
    /\ level_stationary("fusion_fetch_quaternion")
    /\ axis(kf_orientation.x) = <<0, -F16_ONE, 0>>
    /\ negated(axis(kf_attitude.x)) = <<0, 0, -F16_ONE>>
    /\ quaternion_top_row(State) = <<F16_ONE, 0, 0>>

\* The filters of the module state s.
filter_state(s) == <<s.kf_attitude, s.kf_orientation>>

\* The state vectors of the filters of the module state s.
filter_x(s) == <<s.kf_attitude.x, s.kf_orientation.x>>

\* The module state after the sample a is latched in s again and
\* fusion_update(dt) is called.
updated_again(s, a, dt) ==
    fusion_update(fusion_set_accelerometer(s, a[1], a[2], a[3]), dt)

\* The step is the first fusion_update after fusion_initialize, made with
\* only an accelerometer sample latched.
first_update_with_accelerometer ==
    /\ ncalls = 1
    /\ last_call.op = "fusion_set_accelerometer"
    /\ Calls("fusion_update")

\* C21: after fusion_initialize, an accelerometer sample and fusion_update,
\* latching the same sample and calling fusion_update again leaves the
\* filters (x, A, P, Q of both) as the first update left them.
C21_RepeatedUpdateSameState ==
    [][first_update_with_accelerometer
         => filter_state(updated_again(State', m_accelerometer, last_call'.arg[1]))
                = filter_state(State')]_vars

\* The first update after fusion_initialize consumed the sample (0, 0, 1);
\* latching the sample and updating again keeps the attitude state vector
\* and changes the attitude covariance P.
C21_SecondUpdateChangesCovariance ==
    /\ ncalls = 2
    /\ last_call.op = "fusion_update"
    /\ m_accelerometer = <<0, 0, F16_ONE>>
    /\ updated_again(State, m_accelerometer, last_call.arg[1]).kf_attitude.x
           = kf_attitude.x
    /\ updated_again(State, m_accelerometer, last_call.arg[1]).kf_attitude.P
           # kf_attitude.P

\* A P A^T + Q
predicted_covariance(A, P, Q) ==
    mf16_add(mf16_mul(mf16_mul(A, P), mf16_transpose(A)), Q)

\* The filter kf2 is the filter kf predicted over dt in the order: A from the
\* axis row of kf, integration, covariance with that A, renormalisation.
predicted_in_order(kf, kf2, dt) ==
    /\ identity_outside_upper_right(kf2.A)
    /\ upper_right(kf2.A) = skew(axis(kf.x), dt)
    /\ kf2.P = predicted_covariance(kf2.A, kf.P, kf.Q)
    /\ kf2.x = fusion_sanitize_state(fusion_fastpredict_X(kf, dt)).x

integrated(x, dt) ==
    <<fix16_add(axis(x)[1], fix16_mul(cross(rates(x), axis(x))[1], dt)),
      fix16_add(axis(x)[2], fix16_mul(cross(rates(x), axis(x))[2], dt)),
      fix16_add(axis(x)[3], fix16_mul(cross(rates(x), axis(x))[3], dt))>>

\* The filter kf2 is kf with the axis row integrated over dt from the values
\* before the step, renormalised, and entries 3..5 as they were.
integrated_at_once(kf, kf2, dt) ==
    /\ axis(fusion_fastpredict_X(kf, dt).x) = integrated(kf.x, dt)
    /\ axis(kf2.x) = normalised(integrated(kf.x, dt))
    /\ rates(kf2.x) = rates(kf.x)

\* C24: fusion_predict(dt) integrates the three axis components of each
\* filter from their values before the step,
\* c1' = c1 + dt*(c3*wy - c2*wz), c2' = c2 + dt*(c1*wz - c3*wx),
\* c3' = c3 + dt*(c2*wx - c1*wy), and leaves entries 3..5 unchanged; so does
\* the integration over dt = 1.0 from the same state.
C24_AxisIntegratedAtOnce ==
    [][Calls("fusion_predict")
         => /\ integrated_at_once(kf_attitude, kf_attitude', called_dt)
            /\ integrated_at_once(kf_orientation, kf_orientation', called_dt)
            /\ axis(fusion_fastpredict_X(kf_attitude, F16_ONE).x)
                   = integrated(kf_attitude.x, F16_ONE)
            /\ axis(fusion_fastpredict_X(kf_orientation, F16_ONE).x)
                   = integrated(kf_orientation.x, F16_ONE)]_vars

\* A prediction of a later round was made on a bootstrapped attitude filter
\* with non-zero angular velocity, and its axis row has left (0, 0, 1).
C24_IntegratedWhileRotating ==
    /\ last_call.op = "fusion_predict"
    /\ ncalls > 4
    /\ m_attitude_bootstrapped = TRUE
    /\ rates(kf_attitude.x) # <<0, 0, 0>>
    /\ axis(kf_attitude.x)[1] # 0
    /\ axis(kf_attitude.x)[3] > 0

\* C25: a fusion_update made with an undisturbed accelerometer sample and a
\* magnetometer sample latched while neither filter is bootstrapped sets
\* both bootstrap flags, corrects the attitude filter first, and projects the
\* magnetometer sample on the attitude axis row that this call leaves.
C25_AttitudeBeforeOrientation ==
    [][(/\ Calls("fusion_update")
        /\ m_have_accelerometer = TRUE
        /\ m_have_magnetometer = TRUE
        /\ norm_error(m_accelerometer) < attitude_threshold
        /\ m_attitude_bootstrapped = FALSE
        /\ m_orientation_bootstrapped = FALSE)
         => /\ m_attitude_bootstrapped' = TRUE
            /\ m_orientation_bootstrapped' = TRUE
            /\ corrections' = << <<"kf_attitude", "kfm_accel">>,
                                 <<"kf_orientation", "kfm_magneto">> >>
            /\ axis(kfm_magneto'.z) =
                   normalised(cross(m_magnetometer, axis(kf_attitude'.x)))]_vars

\* One update after fusion_initialize has bootstrapped both filters from the
\* accelerometer sample (1.14, 0, 0) and the magnetometer sample (0, 0, 1),
\* whose projection on the seeded attitude axis row (0, 0, 1) would be zero.
C25_BothBootstrappedAtOnce ==
    /\ ncalls = 3
    /\ last_call.op = "fusion_update"
    /\ m_attitude_bootstrapped = TRUE
    /\ m_orientation_bootstrapped = TRUE
    /\ m_magnetometer = <<0, 0, F16_ONE>>
    /\ axis(kf_attitude.x) = <<F16_ONE, 0, 0>>
    /\ axis(kfm_magneto.z) = <<0, F16_ONE, 0>>

\* The axis rows that fusion_initialize seeds.
seeded(kf) == axis(fusion_initialize(StaticState)[kf].x)

\* C26: no call turns a bootstrap flag from true to false, fusion_initialize
\* included; a fusion_initialize leaves the seed in both axis rows, and an
\* update of a filter whose flag is true only corrects, whatever was called
\* in between.
C26_BootstrapFlagsMonotone ==
    [][/\ m_attitude_bootstrapped = TRUE => m_attitude_bootstrapped' = TRUE
       /\ m_orientation_bootstrapped = TRUE => m_orientation_bootstrapped' = TRUE
       /\ Calls("fusion_initialize")
            => /\ axis(kf_attitude'.x) = seeded("kf_attitude")
               /\ axis(kf_orientation'.x) = seeded("kf_orientation")
       /\ (Calls("fusion_update") /\ m_have_accelerometer = TRUE
                                  /\ m_attitude_bootstrapped = TRUE)
            => kf_attitude' = fusion_update_attitude(State, called_dt).kf_attitude
       /\ (Calls("fusion_update") /\ m_have_magnetometer = TRUE
                                  /\ m_orientation_bootstrapped = TRUE)
            => kf_orientation' =
                   fusion_update_orientation(yaw_start(kf_orientation),
                                             called_dt).kf_orientation]_vars

\* The module state after fusion_initialize on the zeroed statics, the
\* samples a and m latched and fusion_update(dt).
first_round(a, m, dt) ==
    fusion_update(
        fusion_set_magnetometer(
            fusion_set_accelerometer(fusion_initialize(StaticState), a[1], a[2], a[3]),
            m[1], m[2], m[3]),
        dt)

\* fusion_initialize was called on a module with both filters bootstrapped,
\* then samples of both sensors were latched and consumed by an update: the
\* flags are true and the covariance is that of one correction.
C26_UpdatedAfterRestart ==
    /\ ncalls = 7
    /\ last_call.op = "fusion_update"
    /\ corrections = << <<"kf_attitude", "kfm_accel">>,
                        <<"kf_orientation", "kfm_magneto">> >>
    /\ m_attitude_bootstrapped = TRUE
    /\ m_orientation_bootstrapped = TRUE
    /\ m_accelerometer = <<F16_ONE, 0, 0>>
    /\ kf_attitude.P =
           first_round(m_accelerometer, m_magnetometer, last_call.arg[1]).kf_attitude.P

\* The gyroscope entries of the measurement z of the observation kfm in the
\* module state s: entries 0..2 of kfm_gyro, entries 3..5 of the others.
gyro_measured(s, kfm) ==
    IF kfm = "kfm_gyro" THEN axis(s[kfm].z) ELSE rates(s[kfm].z)

\* C27: every fusion_update corrects both filters against a measurement
\* whose gyroscope entries are the gyroscope buffer, leaves have_gyroscope as
\* it is, and leads to the same state whatever have_gyroscope is.
C27_UpdateReadsGyroscopeBuffer ==
    [][Calls("fusion_update")
         => /\ Len(corrections') = 2
            /\ corrections'[1][1] = "kf_attitude"
            /\ corrections'[2][1] = "kf_orientation"
            /\ gyro_measured(State', corrections'[1][2]) = m_gyroscope
            /\ gyro_measured(State', corrections'[2][2]) = m_gyroscope
            /\ m_have_gyroscope' = m_have_gyroscope
            /\ fusion_update([State EXCEPT !.m_have_gyroscope = ~m_have_gyroscope],
                             called_dt)
                   = [State' EXCEPT !.m_have_gyroscope = ~m_have_gyroscope]]_vars

\* A second update in a row was made after one gyroscope sample: it used the
\* sample of the first one again.
C27_GyroscopeSampleUsedAgain ==
    /\ ncalls = 3
    /\ last_call.op = "fusion_update"
    /\ last_call.again = TRUE
    /\ m_have_gyroscope = TRUE
    /\ m_gyroscope # <<0, 0, 0>>
    /\ axis(kfm_gyro.z) = m_gyroscope
    /\ rates(kf_attitude.x) # <<0, 0, 0>>

\* m x a for the latched magnetometer sample m and the attitude axis row a
\* that the step leaves.
projected == cross(m_magnetometer, axis(kf_attitude'.x))

\* C28: a fusion_update with a magnetometer sample latched whose projection
\* m x a has norm 0, the attitude filter being bootstrapped, leaves the
\* orientation flag true and corrects the orientation filter against
\* kfm_magneto, the measurement being the projection divided by the zero norm.
C28_ZeroProjectionNotRejected ==
    [][(/\ Calls("fusion_update")
        /\ m_have_magnetometer = TRUE
        /\ m_attitude_bootstrapped' = TRUE
        /\ norm3(projected[1], projected[2], projected[3]) = 0)
         => /\ m_orientation_bootstrapped' = TRUE
            /\ corrections'[2] = <<"kf_orientation", "kfm_magneto">>
            /\ axis(kfm_magneto'.z) = v3d_div(projected, 0)
            /\ out' = out]_vars

\* The first update after fusion_initialize consumed an accelerometer and a
\* magnetometer sample of the same direction and has bootstrapped the
\* orientation filter from the projection divided by its zero norm.
C28_BootstrappedFromZeroProjection ==
    /\ ncalls = 3
    /\ last_call.op = "fusion_update"
    /\ m_accelerometer = <<F16_ONE, 0, 0>>
    /\ m_magnetometer = <<F16_ONE, 0, 0>>
    /\ m_orientation_bootstrapped = TRUE
    /\ corrections[2] = <<"kf_orientation", "kfm_magneto">>
    /\ axis(kfm_magneto.z) = <<fix16_minimum, fix16_minimum, fix16_minimum>>

\* The configuration c2 is c but for its field reg, which holds value.
only_field_set(c, c2, reg, value) ==
    /\ c2[reg] = value
    /\ \A f \in Fields \ {reg} : c2[f] = c[f]

\* The SMPLRT_DIV value for a divider: divider - 1, zero counting as 1.
divider_field(divider) == IF divider = 0 THEN 0 ELSE divider - 1

\* C22: MPU6050_SetGyroscopeSampleRateDivider leaves divider - 1 in
\* SMPLRT_DIV (0 for the divider 0) and every other field as it was, in the
\* call made and for every divider in 0..255 from the same structure.
C22_DividerStoredMinusOne ==
    [][Calls("MPU6050_SetGyroscopeSampleRateDivider")
         => /\ only_field_set(configuration, configuration', "SMPLRT_DIV",
                              divider_field(last_call'.arg[1]))
            /\ \A divider \in 0..255 :
                   only_field_set(configuration,
                       MPU6050_SetGyroscopeSampleRateDivider(configuration, divider),
                       "SMPLRT_DIV", divider_field(divider))]_vars

\* The divider 0 was set in a structure fetched from a device whose
\* registers are all non-zero.
C22_DividerZeroSet ==
    /\ last_call.op = "MPU6050_SetGyroscopeSampleRateDivider"
    /\ last_call.arg = <<0>>
    /\ configuration["SMPLRT_DIV"] = 0
    /\ \A f \in Fields \ {"SMPLRT_DIV"} : configuration[f] # 0

\* C29: MPU6050_SetSleepMode(mode) leaves the bit of PWR_MGMT_1 selected by
\* MPU6050_PWR_MGMT_1_SLEEP_MASK at 1 for mode 1 and at 0 for mode 0, and
\* the other bits of PWR_MGMT_1 as they were.
C29_SleepBitFollowsMode ==
    [][Calls("MPU6050_SetSleepMode")
         => /\ BitAnd(configuration'["PWR_MGMT_1"], MPU6050_PWR_MGMT_1_SLEEP_MASK)
                   = last_call'.arg[1] * MPU6050_PWR_MGMT_1_SLEEP_MASK
            /\ BitAnd(configuration'["PWR_MGMT_1"], 255 - MPU6050_PWR_MGMT_1_SLEEP_MASK)
                   = BitAnd(configuration["PWR_MGMT_1"],
                            255 - MPU6050_PWR_MGMT_1_SLEEP_MASK)]_vars

\* MPU6050_SetSleepMode(1) was called on a fetched structure and the bit
\* selected by the mask is 0, with other bits of PWR_MGMT_1 set.
C29_SleepBitClearAfterModeOne ==
    /\ last_call.op = "MPU6050_SetSleepMode"
    /\ last_call.arg = <<1>>
    /\ BitAnd(configuration["PWR_MGMT_1"], MPU6050_PWR_MGMT_1_SLEEP_MASK) = 0
    /\ configuration["PWR_MGMT_1"] # 0

\* C30: MPU6050_StoreConfiguration called right after
\* MPU6050_FetchConfiguration, the structure not modified, leaves every
\* device register with the value it had.
C30_StoreAfterFetchKeepsRegisters ==
    [][(last_call.op = "MPU6050_FetchConfiguration"
            /\ Calls("MPU6050_StoreConfiguration"))
         => registers' = registers]_vars

\* A fetch and a store were made on a device whose registers each held
\* their own address: the two registers after I2C_SLV0_ADDR (FIFO_EN + 2)
\* have exchanged their values.
C30_Slv0RegistersExchanged ==
    /\ ncalls = 2
    /\ last_call.op = "MPU6050_StoreConfiguration"
    /\ registers[MPU6050_REG_FIFO_EN + 2] = MPU6050_REG_FIFO_EN + 2
    /\ registers[MPU6050_REG_FIFO_EN + 3] = MPU6050_REG_FIFO_EN + 4
    /\ registers[MPU6050_REG_FIFO_EN + 4] = MPU6050_REG_FIFO_EN + 3
    /\ \A a \in Addresses \ {MPU6050_REG_FIFO_EN + 3, MPU6050_REG_FIFO_EN + 4} :
           registers[a] = a
====
